---- MODULE Spec2Model ----
(***************************************************************************)
(* Route generation and scenario serialisation of the SUMO helper backend. *)
(*                                                                         *)
(* Numbers.  A percentage of a request is a decimal number, kept as an     *)
(* integer in units of 0.001 percent; the program reads it as a double and *)
(* the model computes with that double: the sum of the percentages, the    *)
(* tolerance test, the truncated shares and the departure times (the       *)
(* source adds the float simulation_time / max(1, total_vehicles) once per *)
(* routed vehicle) are rounded as IEEE 754 rounds them.                    *)
(* Strings.  An f-string or a join is kept as the tuple of its parts       *)
(* (route id "route_car_0" is <<"route", "car", 0>>, the edges attribute   *)
(* "e1 e2" is <<"e1", "e2">>).                                             *)
(* Randomness.  The module-level generator of Python's random is one       *)
(* shared state.  After random.seed(k) it is known: the state is the seed  *)
(* and the number of 32-bit outputs consumed since, and the outputs are    *)
(* those of the Mersenne Twister, kept by their two leading bits (all that *)
(* random.choice reads for a list of up to three elements).  Before any    *)
(* seeding the state is the one the process got from the operating system: *)
(* the outputs of a call are then any sequence.                            *)
(***************************************************************************)
EXTENDS Integers, Sequences, FiniteSets, TLC

VARIABLES rng, request, vehicle_counts, routes_data, picks, route_content,
          response, memo, effects, bundle, loaded,
          active_connections, handlers, peers, broadcast, failed_removals

\* the state of the WebSocket registry of main.py
sockets == <<active_connections, handlers, peers, broadcast, failed_removals>>

\* the state the HTTP handlers and the services work on
handled == <<rng, request, vehicle_counts, routes_data, picks, route_content,
             response, memo, effects, bundle, loaded>>

vars == <<rng, request, vehicle_counts, routes_data, picks, route_content,
          response, memo, effects, bundle, loaded,
          active_connections, handlers, peers, broadcast, failed_removals>>

(* ---------------------------------------------------------------------- *)
(* Bounds of the model                                                     *)
(* ---------------------------------------------------------------------- *)
MaxVehicles == 3
MaxSeed == 1
\* the outputs a known stream may have consumed when a call returns
MaxWords == 12
MaxRoutes == 2

(* ---------------------------------------------------------------------- *)
(* Program constants                                                       *)
(* ---------------------------------------------------------------------- *)
FULL_PERCENT == 100000
TOLERANCE == 10

\* Python None, and a present optional value
None == <<>>

Some(x) == <<x>>

(* ---------------------------------------------------------------------- *)
(* Identifiers and their Python string order (used by the heap tuples)    *)
(* ---------------------------------------------------------------------- *)
IdOrder == <<"A", "B", "C", "D", "e1", "e2", "e3">>

IdRank(id) == CHOOSE i \in 1..Len(IdOrder) : IdOrder[i] = id

RECURSIVE PathLess(_, _)
PathLess(p, q) ==
    IF p = <<>> THEN q # <<>>
    ELSE IF q = <<>> THEN FALSE
    ELSE IF IdRank(Head(p)) # IdRank(Head(q)) THEN IdRank(Head(p)) < IdRank(Head(q))
    ELSE PathLess(Tail(p), Tail(q))

\* order of the tuples (cost, node, path) pushed on the heap
ItemLess(a, b) ==
    \/ a.cost < b.cost
    \/ a.cost = b.cost /\ IdRank(a.node) < IdRank(b.node)
    \/ a.cost = b.cost /\ a.node = b.node /\ PathLess(a.path, b.path)

heappop(queue) == CHOOSE a \in queue : \A b \in queue \ {a} : ItemLess(a, b)

(* ---------------------------------------------------------------------- *)
(* Networks: network_data as returned by get_network_data (ids only)      *)
(* ---------------------------------------------------------------------- *)
Edge(i, f, t) == [id |-> i, from |-> f, to |-> t]

\* the path A -> B -> C with edge ids distinct from node ids
NetPath == [id |-> "path", nodes |-> <<"A", "B", "C">>,
            edges |-> <<Edge("e1", "A", "B"), Edge("e2", "B", "C")>>]

\* the same path, its edges named after a node id (junction and edge ids
\* live in separate name spaces of a network file)
NetNamed == [id |-> "named", nodes |-> <<"A", "B", "C">>,
             edges |-> <<Edge("A", "A", "B"), Edge("C", "B", "C")>>]

\* edge "A" is a self-loop on C, edge "B" runs A -> B
NetLoop == [id |-> "loop", nodes |-> <<"A", "B", "C">>,
            edges |-> <<Edge("A", "C", "C"), Edge("B", "A", "B")>>]

\* a diamond A -> {B, C} -> D with a back edge D -> A; every edge but the
\* last is named after a node id
NetDiamond == [id |-> "diamond", nodes |-> <<"A", "B", "C", "D">>,
               edges |-> <<Edge("A", "A", "B"), Edge("D", "C", "D"),
                           Edge("B", "A", "C"), Edge("C", "B", "D"),
                           Edge("e1", "D", "A")>>]

Networks == {NetPath, NetNamed, NetLoop, NetDiamond}

\* a ring A -> B -> C -> A with self-loops on A and on B; the edges that
\* leave a node towards the next one are named after the node they reach
NetRing == [id |-> "ring", nodes |-> <<"A", "B", "C">>,
            edges |-> <<Edge("A", "A", "A"), Edge("B", "A", "B"), Edge("C", "B", "C"),
                        Edge("e1", "C", "A"), Edge("e2", "B", "B")>>]

Range(s) == {s[i] : i \in 1..Len(s)}

EdgeOf(net, i) == CHOOSE e \in Range(net.edges) : e.id = i

(* ---------------------------------------------------------------------- *)
(* The shared random stream                                                *)
(* ---------------------------------------------------------------------- *)
\* the first 32 outputs of the generator after random.seed(k), k = 0..3, each
\* shifted right by 30 bits
SeededWords ==
    << <<3, 1, 3, 3, 1, 0, 1, 3, 2, 1, 1, 3, 3, 3, 1, 3, 1, 1, 2, 3, 3, 0, 2, 0, 1, 0, 3, 0, 2, 3, 1, 3>>,
       <<0, 2, 3, 3, 3, 0, 1, 0, 1, 3, 1, 1, 2, 1, 3, 0, 0, 1, 0, 3, 3, 1, 1, 2, 3, 3, 0, 2, 1, 1, 2, 3>>,
       <<3, 3, 3, 3, 0, 0, 0, 1, 3, 0, 2, 3, 2, 3, 1, 1, 2, 0, 2, 0, 2, 2, 0, 3, 1, 2, 1, 3, 2, 3, 3, 2>>,
       <<0, 2, 2, 0, 1, 3, 2, 1, 2, 2, 0, 2, 0, 3, 3, 1, 1, 2, 0, 0, 3, 2, 1, 2, 3, 2, 1, 1, 2, 3, 0, 0>> >>

\* the generator of a process nothing has seeded
Unknown == [seed |-> None, pos |-> 0]

\* random.seed(k)
seeded_state(k) == [seed |-> Some(k), pos |-> 0]

\* the stream a call draws from: the state of the generator and, for the
\* unknown state, the outputs it is going to produce
stream_of(state, hidden) == [seed |-> state.seed, pos |-> state.pos, hidden |-> hidden]

\* the state the generator is left in
state_of(stream) == IF stream.seed = None THEN Unknown
                    ELSE [seed |-> stream.seed, pos |-> stream.pos]

\* the next output of the stream, by its two leading bits
next_word(stream) ==
    LET words == IF stream.seed = None THEN stream.hidden
                 ELSE SeededWords[stream.seed[1] + 1]
    IN IF stream.pos < Len(words) THEN words[stream.pos + 1] ELSE 0

\* n.bit_length() for n < 256
bit_length(n) ==
    IF n >= 128 THEN 8 ELSE IF n >= 64 THEN 7 ELSE IF n >= 32 THEN 6 ELSE IF n >= 16 THEN 5
    ELSE IF n >= 8 THEN 4 ELSE IF n >= 4 THEN 3 ELSE IF n >= 2 THEN 2 ELSE n

\* getrandbits(k) of a 32-bit output: its k leading bits (k <= 2)
getrandbits(word, k) == word \div (2 ^ (2 - k))

\* _randbelow_with_getrandbits(n): outputs are drawn until one is below n
RECURSIVE randbelow(_, _)
randbelow(stream, n) ==
    LET r == getrandbits(next_word(stream), bit_length(n))
    IN IF r < n THEN [value |-> r, stream |-> [stream EXCEPT !.pos = @ + 1]]
       ELSE randbelow([stream EXCEPT !.pos = @ + 1], n)

\* random.choice(seq) on a non-empty list: the element drawn and the stream
\* after the draw
random_choice(stream, seq) ==
    CHOOSE result \in {[item |-> seq[d.value + 1], stream |-> d.stream] :
                        d \in {randbelow(stream, Len(seq))}} : TRUE

(* ---------------------------------------------------------------------- *)
(* Double precision.  Python floats are IEEE 754 doubles: every operation *)
(* gives the double nearest to the exact result, ties going to the even   *)
(* mantissa.  A double is its mantissa (53 binary digits, the first one   *)
(* 1) and the exponent of the first digit.                                *)
(* ---------------------------------------------------------------------- *)
\* The parts of a double: the mantissa is hi * 2^26 + lo (hi has 27 binary
\* digits, lo up to 26) and exp is the exponent of its first digit; 0.0 has
\* the parts of Zero.
Zero == [hi |-> 0, lo |-> 0, exp |-> 0]

\* a < b for doubles that are not negative
float_less(a, b) ==
    IF b = Zero THEN FALSE
    ELSE IF a = Zero THEN TRUE
    ELSE \/ a.exp < b.exp
         \/ a.exp = b.exp /\ a.hi < b.hi
         \/ a.exp = b.exp /\ a.hi = b.hi /\ a.lo < b.lo

\* the double nearest to the mantissa hi * 2^26 + lo followed by `rest`
\* (0 nothing, 1 less than half a unit, 2 half a unit, 3 more than half a
\* unit); ties go to the even mantissa
nearest(hi, lo, rest, exp) ==
    IF ~(rest = 3 \/ (rest = 2 /\ lo % 2 = 1)) THEN [hi |-> hi, lo |-> lo, exp |-> exp]
    ELSE IF lo + 1 < 2 ^ 26 THEN [hi |-> hi, lo |-> lo + 1, exp |-> exp]
    ELSE IF hi + 1 < 2 ^ 27 THEN [hi |-> hi + 1, lo |-> 0, exp |-> exp]
    ELSE [hi |-> 2 ^ 26, lo |-> 0, exp |-> exp + 1]

\* the double nearest to the number written in base 256 with the digits
\* `bytes` (most significant first, not all zero, the units of the i-th
\* digit weighing 2^(top - 8 i)), followed by more digits that are not all
\* zero when `sticky`: the 53 binary digits from the first 1 on, rounded
nearest_of_bytes(bytes, sticky, top) ==
    CHOOSE result \in
      {LET f == p.first
           w(i) == IF f + i - 1 <= Len(p.bytes) THEN p.bytes[f + i - 1] ELSE 0
           s == 3 + bit_length(w(1))
           high == w(1) * 65536 + w(2) * 256 + w(3)
           mid == w(4) * 65536 + w(5) * 256 + w(6)
           low == w(7) * 256 + w(8)
           dropped == low % (2 ^ s)
           more == sticky \/ \E i \in (f + 8)..Len(p.bytes) : p.bytes[i] # 0
       IN nearest(high * (2 ^ (14 - s)) + mid \div (2 ^ (s + 10)),
                  (mid % (2 ^ (s + 10))) * (2 ^ (16 - s)) + low \div (2 ^ s),
                  IF dropped < 2 ^ (s - 1) THEN (IF dropped = 0 /\ ~more THEN 0 ELSE 1)
                  ELSE IF dropped = 2 ^ (s - 1) THEN (IF more THEN 3 ELSE 2)
                  ELSE 3,
                  top - 8 * f + s - 4) :
         p \in {[bytes |-> b,
                 first |-> CHOOSE i \in 1..Len(b) :
                             b[i] # 0 /\ \A j \in 1..(i - 1) : b[j] = 0] :
                  b \in {bytes}}} :
      TRUE

\* long division in base 256: the digits of the quotient of the number
\* with the digits `digits` (most significant first) by d, appended to
\* `out`, and the remainder, `rem` being the remainder so far
RECURSIVE long_division(_, _, _, _)
long_division(digits, d, rem, out) ==
    IF digits = <<>> THEN [quotient |-> out, rem |-> rem]
    ELSE long_division(Tail(digits), d, (256 * rem + Head(digits)) % d,
                       Append(out, (256 * rem + Head(digits)) \div d))

\* float(n / d) for integers n >= 0 and 0 < d < 2^22 with n = 0 or
\* n / d > 2^-24, which is also the double the decimal number n / d is read
\* as: the quotient to 88 binary digits after the point, rounded
float_of(n, d) ==
    IF n = 0 THEN Zero
    ELSE CHOOSE result \in
           {nearest_of_bytes(q.quotient, q.rem # 0, 32) :
              q \in {long_division(<<n \div 16777216, (n \div 65536) % 256, (n \div 256) % 256,
                                     n % 256, 0, 0, 0, 0, 0, 0, 0, 0, 0, 0, 0>>,
                                   d, 0, <<>>)}} :
           TRUE

\* the mantissa hi * 2^26 + lo shifted right by d digits; rest tells what
\* was shifted out, as for nearest
shift_right(hi, lo, d) ==
    IF d = 0 THEN [hi |-> hi, lo |-> lo, rest |-> 0]
    ELSE IF d <= 26
    THEN [hi |-> hi \div (2 ^ d),
          lo |-> (hi % (2 ^ d)) * (2 ^ (26 - d)) + lo \div (2 ^ d),
          rest |-> IF lo % (2 ^ d) = 0 THEN 0
                   ELSE IF lo % (2 ^ d) < 2 ^ (d - 1) THEN 1
                   ELSE IF lo % (2 ^ d) = 2 ^ (d - 1) THEN 2 ELSE 3]
    ELSE IF d <= 56
    THEN [hi |-> 0,
          lo |-> hi \div (2 ^ (d - 26)),
          rest |-> IF hi % (2 ^ (d - 26)) = 0 /\ lo = 0 THEN 0
                   ELSE IF hi % (2 ^ (d - 26)) < 2 ^ (d - 27) THEN 1
                   ELSE IF hi % (2 ^ (d - 26)) = 2 ^ (d - 27) /\ lo = 0 THEN 2 ELSE 3]
    ELSE [hi |-> 0, lo |-> 0, rest |-> 1]

\* a + b for doubles that are not negative
float_add(a, b) ==
    IF a = Zero THEN b
    ELSE IF b = Zero THEN a
    ELSE LET big == IF a.exp >= b.exp THEN a ELSE b
             small == IF a.exp >= b.exp THEN b ELSE a
         IN CHOOSE result \in
              {LET lo == big.lo + s.lo
                   hi == big.hi + s.hi + lo \div (2 ^ 26)
               IN IF hi < 2 ^ 27
                  THEN nearest(hi, lo % (2 ^ 26), s.rest, big.exp)
                  ELSE nearest(hi \div 2,
                               (hi % 2) * (2 ^ 25) + (lo % (2 ^ 26)) \div 2,
                               IF lo % 2 = 0 THEN (IF s.rest = 0 THEN 0 ELSE 1)
                               ELSE (IF s.rest = 0 THEN 2 ELSE 3),
                               big.exp + 1) :
                 s \in {shift_right(small.hi, small.lo, big.exp - small.exp)}} :
              TRUE

\* a - b for doubles a >= b >= 0: four times the mantissa of a less four
\* times the mantissa of b moved to the exponent of a, then rounded
float_sub(a, b) ==
    IF b = Zero THEN a
    ELSE IF a = b THEN Zero
    ELSE LET d == a.exp - b.exp
             s == IF d >= 2 THEN shift_right(b.hi, b.lo, d - 2)
                  ELSE [hi |-> b.hi * (2 ^ (2 - d)) + (b.lo * (2 ^ (2 - d))) \div (2 ^ 26),
                        lo |-> (b.lo * (2 ^ (2 - d))) % (2 ^ 26),
                        rest |-> 0]
             sticky == IF s.rest = 0 THEN 0 ELSE 1
             low == ((a.lo * 4) % (2 ^ 26)) - s.lo - sticky
             borrow == IF low < 0 THEN 1 ELSE 0
             lo == low + borrow * (2 ^ 26)
             hi == a.hi * 4 + (a.lo * 4) \div (2 ^ 26) - s.hi - borrow
         IN nearest_of_bytes(<<hi \div (2 ^ 22), (hi \div (2 ^ 14)) % 256, (hi \div 64) % 256,
                               (hi % 64) * 4 + lo \div (2 ^ 24), (lo \div 65536) % 256,
                               (lo \div 256) % 256, lo % 256>>,
                             sticky = 1, a.exp + 2)

\* eight times the mantissa of a double in base 256, 7 digits
mantissa_bytes(x) ==
    <<x.hi \div (2 ^ 19), (x.hi \div (2 ^ 11)) % 256, (x.hi \div 8) % 256,
      (x.hi % 8) * 32 + x.lo \div (2 ^ 21), (x.lo \div (2 ^ 13)) % 256, (x.lo \div 32) % 256,
      (x.lo % 32) * 8>>

\* x / n for a double x that is not negative and the double of an integer
\* n, 0 < n < 2^22: the quotient of the mantissa to 88 binary digits,
\* rounded
float_div_int(x, n) ==
    IF x = Zero THEN Zero
    ELSE CHOOSE result \in
           {nearest_of_bytes(q.quotient, q.rem # 0, x.exp + 1) :
              q \in {long_division(mantissa_bytes(x) \o <<0, 0, 0, 0>>, n, 0, <<>>)}} :
           TRUE

\* the digits of k times the number with the digits `digits` in base 256,
\* put before `out`, `carry` being what the digits done so far carry over;
\* the carry left at the end takes three digits
RECURSIVE long_product(_, _, _, _)
long_product(digits, k, carry, out) ==
    IF digits = <<>>
    THEN <<carry \div 65536, (carry \div 256) % 256, carry % 256>> \o out
    ELSE long_product(SubSeq(digits, 1, Len(digits) - 1), k,
                      (digits[Len(digits)] * k + carry) \div 256,
                      <<(digits[Len(digits)] * k + carry) % 256>> \o out)

\* x * k for a double x that is not negative and the double of an integer
\* k, 0 <= k < 2^22: the mantissa times k, rounded
float_mul_int(x, k) ==
    IF x = Zero \/ k = 0 THEN Zero
    ELSE nearest_of_bytes(long_product(mantissa_bytes(x), k, 0, <<>>), FALSE, x.exp + 25)

\* int(x) for a double x that is not negative and below 2^31
int_of(x) ==
    IF x = Zero \/ x.exp < 0 THEN 0
    ELSE IF x.exp <= 26 THEN x.hi \div (2 ^ (26 - x.exp))
    ELSE x.hi * (2 ^ (x.exp - 26)) + x.lo \div (2 ^ (52 - x.exp))

(* ---------------------------------------------------------------------- *)
(* Vehicle distributions.  The percentage of an entry is the decimal      *)
(* number of the request, written in thousandths (50.01 is 50010); the    *)
(* program computes with the double it is read as.                        *)
(* ---------------------------------------------------------------------- *)
VD(t, p, c) == [vehicle_type |-> t, percentage |-> p, color |-> c]

\* the sum of the percentages as they are written, in thousandths
RECURSIVE SumPercentage(_)
SumPercentage(dist) ==
    IF dist = <<>> THEN 0 ELSE Head(dist).percentage + SumPercentage(Tail(dist))

Abs(x) == IF x < 0 THEN 0 - x ELSE x

\* vd.percentage
percentage_of(vd) == float_of(vd.percentage, 1000)

\* sum(vd.percentage for vd in vehicle_distribution): the entries are added
\* to 0 one after the other, each sum rounded
RECURSIVE total_percentage(_)
total_percentage(dist) ==
    IF dist = <<>> THEN Zero
    ELSE float_add(total_percentage(SubSeq(dist, 1, Len(dist) - 1)),
                   percentage_of(dist[Len(dist)]))

\* abs(total_percentage - 100.0)
percentage_error(dist) ==
    CHOOSE result \in
      {IF float_less(total, full) THEN float_sub(full, total) ELSE float_sub(total, full) :
         total \in {total_percentage(dist)}, full \in {float_of(FULL_PERCENT, 1000)}} :
      TRUE

\* abs(total_percentage - 100.0) > 0.01
distribution_rejected(dist) == float_less(float_of(TOLERANCE, 1000), percentage_error(dist))

\* int((percentage / 100.0) * total_vehicles)
truncated_share(percentage, total_vehicles) ==
    int_of(float_mul_int(float_div_int(float_of(percentage, 1000), 100), total_vehicles))

\* vehicle_counts[vehicle_type] = count on a dict: a repeated key keeps its
\* place and takes the new value
dict_set(d, k, v) ==
    IF \E i \in 1..Len(d) : d[i].key = k
    THEN [i \in 1..Len(d) |-> IF d[i].key = k THEN [key |-> k, value |-> v] ELSE d[i]]
    ELSE Append(d, [key |-> k, value |-> v])

RECURSIVE raw_counts(_, _, _)
raw_counts(dist, total_vehicles, d) ==
    IF dist = <<>> THEN d
    ELSE raw_counts(Tail(dist), total_vehicles,
                    dict_set(d, Head(dist).vehicle_type,
                             truncated_share(Head(dist).percentage, total_vehicles)))

RECURSIVE SumValues(_)
SumValues(d) == IF d = <<>> THEN 0 ELSE Head(d).value + SumValues(Tail(d))

\* if actual_total < total_vehicles: vehicle_counts[first_type] += remainder
reconcile(d, dist, total_vehicles) ==
    LET actual_total == SumValues(d)
        first_type == dist[1].vehicle_type
    IN IF actual_total < total_vehicles
       THEN [i \in 1..Len(d) |->
               IF d[i].key = first_type
               THEN [key |-> d[i].key, value |-> d[i].value + (total_vehicles - actual_total)]
               ELSE d[i]]
       ELSE d

compute_vehicle_counts(dist, total_vehicles) ==
    reconcile(raw_counts(dist, total_vehicles, <<>>), dist, total_vehicles)

(* ---------------------------------------------------------------------- *)
(* Dijkstra over the adjacency map node id -> [(neighbor, edge id)]       *)
(* ---------------------------------------------------------------------- *)
\* graph.get(node, [])
graph_get(edges, node) ==
    {[neighbor |-> e.to, edge_id |-> e.id] : e \in {x \in Range(edges) : x.from = node}}

NoPath == [found |-> FALSE, path |-> <<>>]

\* variant: a search that returns round trips (the goal is accepted only at
\* the end of an edge, and a visited neighbour is pushed again)
RECURSIVE dijkstra_loop_round_trip(_, _, _, _)
dijkstra_loop_round_trip(edges, queue, visited, goal) ==
    IF queue = {} THEN NoPath
    ELSE LET item == heappop(queue)
             rest == queue \ {item}
         IN IF item.node = goal /\ item.path # <<>>
            THEN [found |-> TRUE, path |-> item.path]
            ELSE IF item.node \in visited
                 THEN dijkstra_loop_round_trip(edges, rest, visited, goal)
                 ELSE LET seen == visited \cup {item.node}
                          pushed == {[cost |-> item.cost + 1, node |-> n.neighbor,
                                      path |-> Append(item.path, n.edge_id)] :
                                     n \in graph_get(edges, item.node)}
                      IN dijkstra_loop_round_trip(edges, rest \cup pushed, seen, goal)

RECURSIVE dijkstra_loop(_, _, _, _)
dijkstra_loop(edges, queue, visited, goal) ==
    IF queue = {} THEN NoPath
    ELSE LET item == heappop(queue)
             rest == queue \ {item}
         IN IF item.node = goal THEN [found |-> TRUE, path |-> item.path]
            ELSE IF item.node \in visited
                 THEN dijkstra_loop(edges, rest, visited, goal)
                 ELSE LET seen == visited \cup {item.node}
                          pushed == {[cost |-> item.cost + 1, node |-> n.neighbor,
                                      path |-> Append(item.path, n.edge_id)] :
                                     n \in {m \in graph_get(edges, item.node) :
                                                m.neighbor \notin seen}}
                      IN dijkstra_loop(edges, rest \cup pushed, seen, goal)

dijkstra(edges, start, goal) ==
    dijkstra_loop(edges, {[cost |-> 0, node |-> start, path |-> <<>>]}, {}, goal)

\* variant: only a missing path is skipped (route_path is None)
route_skipped_none_only(r) == ~r.found

\* if not route_path: continue
route_skipped(r) == ~r.found \/ r.path = <<>>


(* ---------------------------------------------------------------------- *)
(* generate_routes_with_vehicles                                           *)
(* ---------------------------------------------------------------------- *)
Max(a, b) == IF a > b THEN a ELSE b

\* the time n / d seconds as a float
Time(n, d) == float_of(n, d)

\* depart_step = simulation_time / max(1, total_vehicles)
depart_step(inp) == float_of(inp.simulation_time, Max(1, inp.total_vehicles))

RECURSIVE Repeat(_, _)
Repeat(x, n) == IF n <= 0 THEN <<>> ELSE <<x>> \o Repeat(x, n - 1)

\* the vehicles attempted, in the order of the two nested loops:
\* for vehicle_type, count in vehicle_counts.items(): for i in range(count)
RECURSIVE attempts(_)
attempts(counts) ==
    IF counts = <<>> THEN <<>>
    ELSE Repeat(Head(counts).key, Head(counts).value) \o attempts(Tail(counts))

\* next((vd for vd in vehicle_distribution if vd.vehicle_type == vehicle_type), None)
vd_config(dist, vehicle_type) ==
    dist[CHOOSE i \in 1..Len(dist) :
            /\ dist[i].vehicle_type = vehicle_type
            /\ \A j \in 1..(i - 1) : dist[j].vehicle_type # vehicle_type]

\* global_depart += depart_step
depart_advance(global_depart, step) == float_add(global_depart, step)

\* variant: the assignment stands for a batch of vehicles
new_route_batched(inp, vehicle_type, counter, global_depart, route_path) ==
    [id |-> <<"route", vehicle_type, ToString(counter)>>,
     edges |-> route_path,
     vehicle_count |-> 2,
     vehicle_type |-> vehicle_type,
     start_time |-> global_depart,
     end_time |-> float_add(global_depart, Time(1, 1)),
     color |-> vd_config(inp.vehicle_distribution, vehicle_type).color,
     attributes |-> "",
     vehicle_id |-> <<vehicle_type, ToString(counter)>>]

new_route(inp, vehicle_type, counter, global_depart, route_path) ==
    [id |-> <<"route", vehicle_type, ToString(counter)>>,
     edges |-> route_path,
     vehicle_count |-> 1,
     vehicle_type |-> vehicle_type,
     start_time |-> global_depart,
     end_time |-> float_add(global_depart, Time(1, 1)),
     color |-> vd_config(inp.vehicle_distribution, vehicle_type).color,
     attributes |-> "",
     vehicle_id |-> <<vehicle_type, ToString(counter)>>]

\* variant: the departure counter advances for a skipped vehicle too
skip_attempt_advancing(inp, acc, rng2) ==
    [acc EXCEPT !.rng = rng2, !.attempt = @ + 1,
                !.global_depart = depart_advance(@, acc.depart_step)]

\* if not route_path: continue -- the loop goes on to the next vehicle
skip_attempt(inp, acc, rng2) ==
    [acc EXCEPT !.rng = rng2, !.attempt = @ + 1]

\* one pass of the inner loop body per attempted vehicle; attempt numbers
\* the passes from 0
RECURSIVE route_loop(_, _, _)
route_loop(inp, todo, acc) ==
    IF todo = <<>> \/ acc.failed THEN acc
    ELSE IF inp.entry_points = <<>>
    THEN [acc EXCEPT !.failed = TRUE]
    ELSE IF inp.exit_points = <<>>
    THEN [acc EXCEPT !.failed = TRUE,
                     !.rng = random_choice(@, inp.entry_points).stream]
    ELSE
      LET entry_draw == random_choice(acc.rng, inp.entry_points)
          exit_draw == random_choice(entry_draw.stream, inp.exit_points)
          entry_point == entry_draw.item
          closest_exit == exit_draw.item
          rng2 == exit_draw.stream
          route_path == dijkstra(inp.network.edges, entry_point, closest_exit)
      IN IF route_skipped(route_path)
         THEN route_loop(inp, Tail(todo), skip_attempt(inp, acc, rng2))
         ELSE route_loop(inp, Tail(todo),
                [acc EXCEPT
                   !.rng = rng2,
                   !.routes = Append(@, new_route(inp, Head(todo), acc.vehicle_id_counter,
                                                  acc.global_depart, route_path.path)),
                   !.picks = Append(@, [entry |-> entry_point, exit |-> closest_exit,
                                        attempt |-> acc.attempt]),
                   !.attempt = @ + 1,
                   !.vehicle_id_counter = @ + 1,
                   !.global_depart = depart_advance(@, acc.depart_step)])

\* variant: the seed is not applied
seed_stream_ignored(s, seed) == s

\* if random_seed is not None: random.seed(random_seed)
seed_stream(s, seed) ==
    IF seed = None THEN s ELSE stream_of(seeded_state(seed[1]), s.hidden)

\* raise Exception(f"Error generating routes: {str(e)}") for the exception
\* of the percentage test; the number printed is the float sum, and the
\* int 0 that sum() returns for an empty list
rejection_message(dist) ==
    <<"Error generating routes", "Vehicle distribution percentages must sum to 100%, got">>
      \o (IF dist = <<>> THEN <<"int", 0>> ELSE <<"float", total_percentage(dist)>>)

\* the same for the IndexError of random.choice on an empty list
empty_choice_message == <<"Error generating routes", "Cannot choose from an empty sequence">>

\* the percentage test and the counts, which read nothing but the request
vehicle_plan(inp) ==
    IF distribution_rejected(inp.vehicle_distribution)
    THEN [rejected |-> TRUE, counts |-> <<>>]
    ELSE [rejected |-> FALSE,
          counts |-> compute_vehicle_counts(inp.vehicle_distribution, inp.total_vehicles)]

\* the call on stream s once the percentages are tested and the counts
\* taken: [raised, message, rng, counts, routes, picks]
route_vehicles(s, inp, plan) ==
    LET s1 == seed_stream(s, inp.random_seed)
    IN IF plan.rejected
       THEN [raised |-> TRUE, message |-> rejection_message(inp.vehicle_distribution),
             rng |-> s1, counts |-> <<>>, routes |-> <<>>, picks |-> <<>>]
       ELSE LET acc == route_loop(inp, attempts(plan.counts),
                                  [rng |-> s1, routes |-> <<>>, picks |-> <<>>,
                                   vehicle_id_counter |-> 0, global_depart |-> Zero,
                                   depart_step |-> depart_step(inp),
                                   attempt |-> 0, failed |-> FALSE])
            IN IF acc.failed
               THEN [raised |-> TRUE, message |-> empty_choice_message,
                     rng |-> acc.rng, counts |-> plan.counts, routes |-> <<>>,
                     picks |-> <<>>]
               ELSE [raised |-> FALSE, message |-> <<>>,
                     rng |-> acc.rng, counts |-> plan.counts, routes |-> acc.routes,
                     picks |-> acc.picks]

\* the whole call on stream s
generate_routes_with_vehicles(s, inp) ==
    CHOOSE result \in {route_vehicles(s, inp, plan) : plan \in {vehicle_plan(inp)}} : TRUE

(* ---------------------------------------------------------------------- *)
(* create_route_file                                                       *)
(* ---------------------------------------------------------------------- *)
\* route.get(key, default)
Get(r, k, default) == IF k \in DOMAIN r THEN r[k] ELSE default

TimeLeq(a, b) == ~float_less(b, a)

TimeLess(a, b) == float_less(a, b)

start_key(r) == Get(r, "start_time", Time(0, 1))

\* sorted() is stable: an element goes after the elements whose key is <= its own
RECURSIVE insert_sorted(_, _)
insert_sorted(s, r) ==
    IF s = <<>> THEN <<r>>
    ELSE IF TimeLeq(start_key(Head(s)), start_key(r))
         THEN <<Head(s)>> \o insert_sorted(Tail(s), r)
         ELSE <<r>> \o s

RECURSIVE sort_from(_, _)
sort_from(done, rest) ==
    IF rest = <<>> THEN done ELSE sort_from(insert_sorted(done, Head(rest)), Tail(rest))

\* variant: the list is written in the order given
sorted_routes_unsorted(routes) == routes

\* sorted(routes, key=lambda x: x.get('start_time', 0))
sorted_routes(routes) == sort_from(<<>>, routes)

\* the attribute strings of the model that contain the text 'length'
AttributesWithLength == {"length=\"7.5\""}

\* if attributes and 'length' not in attributes: vehicle_attrs += f' {attributes}'
extra_attributes(attributes) ==
    IF attributes # "" /\ attributes \notin AttributesWithLength THEN attributes ELSE ""

\* the route element and the vehicle or flow element written for one route
route_elements(route, n_routes) ==
    LET route_id == Get(route, "id", <<"route", ToString(n_routes)>>)
        edges == Get(route, "edges", <<>>)
        vehicle_count == Get(route, "vehicle_count", 1)
        vehicle_type == Get(route, "vehicle_type", "car")
        start_time == Get(route, "start_time", Time(0, 1))
        end_time == Get(route, "end_time", Time(3600, 1))
        color == Get(route, "color", "yellow")
        attributes == Get(route, "attributes", "")
        vehicle_id == Get(route, "vehicle_id", <<"vehicle">> \o route_id)
    IN << [tag |-> "route", id |-> route_id, edges |-> edges],
          IF vehicle_count = 1
          THEN [tag |-> "vehicle", id |-> vehicle_id, type |-> vehicle_type,
                route |-> route_id, depart |-> start_time, color |-> color,
                extra |-> extra_attributes(attributes)]
          ELSE [tag |-> "flow", id |-> <<"flow">> \o route_id, begin |-> start_time,
                end |-> end_time, vehsPerHour |-> vehicle_count, route |-> route_id,
                type |-> vehicle_type, color |-> color] >>

RECURSIVE emit(_, _)
emit(sorted, n_routes) ==
    IF sorted = <<>> THEN <<>>
    ELSE route_elements(Head(sorted), n_routes) \o emit(Tail(sorted), n_routes)

\* the elements of the routes document after the four fixed vType elements
create_route_file(routes) == emit(sorted_routes(routes), Len(routes))


(* ---------------------------------------------------------------------- *)
(* Requests                                                                *)
(* ---------------------------------------------------------------------- *)
Distributions ==
    { <<VD("car", 100000, "yellow")>>,
      <<VD("car", 50000, "yellow"), VD("bus", 50000, "blue")>>,
      <<VD("car", 33335, "yellow"), VD("bus", 33330, "blue"), VD("truck", 33330, "red")>>,
      <<VD("bus", 50000, "blue"), VD("bus", 50010, "green")>>,
      <<VD("car", 90000, "yellow"), VD("bus", 9990, "blue")>>,
      <<VD("car", 100000, "yellow"), VD("bus", 20, "blue")>>,
      <<>> }

\* the selections made on a network: nothing, or one or both of its first
\* two edges
Selections(net) ==
    {<<>>, <<net.edges[1].id>>, <<net.edges[2].id>>, <<net.edges[1].id, net.edges[2].id>>}

Horizons == {60, 100}

Seeds == {None} \cup {Some(k) : k \in 1..MaxSeed}

Config(net, total, dist, entry, exit, horizon, seed) ==
    [network |-> net, total_vehicles |-> total, vehicle_distribution |-> dist,
     entry_points |-> entry, exit_points |-> exit, simulation_time |-> horizon,
     random_seed |-> seed]

Configs ==
    UNION { { Config(net, total, dist, entry, exit, horizon, seed) :
                total \in 1..MaxVehicles, dist \in Distributions,
                entry \in Selections(net), exit \in Selections(net),
                horizon \in Horizons, seed \in Seeds } : net \in Networks }

\* route records a caller may hold: complete ones, one that asks for extra
\* vehicle attributes, one with a length attribute, a flow, a bare one
RoutePool ==
    { [id |-> <<"route", "car", "0">>, edges |-> <<"e1", "e2">>, vehicle_count |-> 1,
       vehicle_type |-> "car", start_time |-> Time(10, 1), end_time |-> Time(11, 1),
       color |-> "yellow", attributes |-> "", vehicle_id |-> <<"car", "0">>],
      [id |-> <<"route", "bus", "1">>, edges |-> <<"e1">>, vehicle_count |-> 1,
       vehicle_type |-> "bus", start_time |-> Time(5, 1), end_time |-> Time(6, 1),
       color |-> "blue", attributes |-> "departLane=\"best\"",
       vehicle_id |-> <<"bus", "1">>],
      [id |-> <<"route", "truck", "2">>, edges |-> <<"e2">>, vehicle_count |-> 1,
       vehicle_type |-> "truck", start_time |-> Time(5, 1), end_time |-> Time(6, 1),
       color |-> "red", attributes |-> "length=\"7.5\"",
       vehicle_id |-> <<"truck", "2">>],
      [id |-> <<"route", "car", "3">>, edges |-> <<"e1", "e2">>, vehicle_count |-> 3,
       vehicle_type |-> "car", start_time |-> Time(0, 1), end_time |-> Time(60, 1),
       color |-> "yellow", attributes |-> "", vehicle_id |-> <<"car", "3">>],
      [edges |-> <<"e2">>] }

RECURSIVE SeqsUpTo(_, _)
SeqsUpTo(S, n) ==
    IF n = 0 THEN {<<>>}
    ELSE SeqsUpTo(S, n - 1) \cup
         {Append(q, x) : q \in {r \in SeqsUpTo(S, n - 1) : Len(r) = n - 1}, x \in S}

RouteLists == SeqsUpTo(RoutePool, MaxRoutes)

Idle == response = None

\* an HTTP response: its status code and the parts of its detail text
Reply(status, detail) == Some([status |-> status, detail |-> detail])

\* str(e) of an HTTPException raised inside the handler's try block, which
\* the handler's except clause wraps again
str_http(detail) == <<"HTTPException", "400", detail>>

no_valid_routes == str_http("No valid routes could be generated for this network.")

(* ---------------------------------------------------------------------- *)
(* MapService: the network file and get_network_data                       *)
(* Coordinates of the file are integers; computed coordinates are exact    *)
(* rationals [num, den] in lowest terms.  Speeds are in units of 0.01 m/s  *)
(* and lengths in units of 0.01 m.                                         *)
(* ---------------------------------------------------------------------- *)
RECURSIVE GCD(_, _)
GCD(a, b) == IF b = 0 THEN a ELSE GCD(b, a % b)

\* the rational n / d (d > 0) in lowest terms
Rat(n, d) ==
    LET g == GCD(Abs(n), d)
    IN IF g = 0 THEN [num |-> 0, den |-> 1] ELSE [num |-> n \div g, den |-> d \div g]

RatLess(a, b) == a.num * b.den < b.num * a.den

RatMin(a, b) == IF RatLess(b, a) THEN b ELSE a

\* the node elements of the network files, by node id: x, y, type and the
\* optional lat and lon attributes; the element of Q has no x and no y
NodeElements ==
    [A |-> [id |-> "A", x |-> 0, y |-> 0, type |-> "priority", lat |-> Some(10), lon |-> Some(20)],
     B |-> [id |-> "B", x |-> 100, y |-> 0, type |-> "traffic_light", lat |-> Some(10), lon |-> Some(21)],
     C |-> [id |-> "C", x |-> 200, y |-> 50, type |-> "priority", lat |-> Some(11), lon |-> Some(22)],
     D |-> [id |-> "D", x |-> 100, y |-> 100, type |-> "priority", lat |-> None, lon |-> None],
     E |-> [id |-> "E", x |-> 11, y |-> 5, type |-> "priority", lat |-> None, lon |-> None],
     Q |-> [id |-> "Q", type |-> "priority", lat |-> None, lon |-> None]]

\* the optional numLanes, speed and length attributes of the edge elements,
\* by edge id
EdgeAttributes ==
    [e1 |-> [numLanes |-> 3, speed |-> 2778],
     e2 |-> [length |-> 2500],
     e3 |-> [numLanes |-> 1],
     A |-> [numLanes |-> 2, speed |-> 1389, length |-> 10000],
     B |-> [numLanes |-> 1],
     C |-> [speed |-> 833],
     D |-> [numLanes |-> 4, length |-> 5000],
     X |-> [numLanes |-> 1],
     x1 |-> [speed |-> 1389],
     x2 |-> [numLanes |-> 2],
     x3 |-> [numLanes |-> 2, speed |-> 833],
     s1 |-> [length |-> 1208]]

\* the attributes of the edge elements whose text int() or float() does not
\* accept (numLanes="two", speed="fast", length="['25.0']"), by edge id
InvalidAttributes ==
    [x1 |-> {"numLanes"}, x2 |-> {"speed"}, x3 |-> {"length"}]

\* _parse_node_element: the node dictionary, None for an element without
\* x or y
parse_node_element(node_elem) ==
    IF ~({"id", "x", "y"} \subseteq DOMAIN node_elem) THEN None
    ELSE Some([id |-> node_elem.id, x |-> Rat(node_elem.x, 1), y |-> Rat(node_elem.y, 1),
               type |-> node_elem.type, lat |-> node_elem.lat, lon |-> node_elem.lon])

\* the first node of the list with the given id
node_of(nodes, id) ==
    nodes[CHOOSE i \in 1..Len(nodes) :
             /\ nodes[i].id = id
             /\ \A j \in 1..(i - 1) : nodes[j].id # id]

\* what a call returns: its value, or the exception that leaves it
Returned(value) == [raised |-> FALSE, value |-> value]

Raised(message) == [raised |-> TRUE, message |-> message]

\* _calculate_edge_shape: the lat/lon pairs when both ends are in
\* node_latlon_map (parsed, with lat and lon that are not falsy), the x/y
\* pairs otherwise (a coordinate pair is a Python tuple); next() raises
\* StopIteration, whose text is empty, for an end that is not in the list
calculate_edge_shape(from_node, to_node, nodes) ==
    LET listed(id) == \E i \in 1..Len(nodes) : nodes[i].id = id
        mapped(id) ==
            /\ listed(id)
            /\ LET n == node_of(nodes, id)
               IN n.lat # None /\ n.lat[1] # 0 /\ n.lon # None /\ n.lon[1] # 0
    IN IF mapped(from_node) /\ mapped(to_node)
       THEN LET f == node_of(nodes, from_node)
                t == node_of(nodes, to_node)
            IN Returned(<< [tuple |-> <<Rat(f.lat[1], 1), Rat(f.lon[1], 1)>>],
                           [tuple |-> <<Rat(t.lat[1], 1), Rat(t.lon[1], 1)>>] >>)
       ELSE IF ~listed(from_node) \/ ~listed(to_node)
       THEN Raised(<<"">>)
       ELSE LET f == node_of(nodes, from_node)
                t == node_of(nodes, to_node)
            IN Returned(<< [tuple |-> <<f.x, f.y>>], [tuple |-> <<t.x, t.y>>] >>)

\* _parse_edge_element: the edge dictionary; None for an element without
\* id, from or to, for one with an attribute that is not a number
\* (ValueError, caught) and for one without shape; StopIteration is not
\* caught here
parse_edge_element(edge_elem, nodes) ==
    IF ~({"id", "from", "to"} \subseteq DOMAIN edge_elem) THEN Returned(None)
    ELSE IF Get(InvalidAttributes, edge_elem.id, {}) # {} THEN Returned(None)
    ELSE
      LET attrs == EdgeAttributes[edge_elem.id]
          shape_coords == calculate_edge_shape(edge_elem.from, edge_elem.to, nodes)
      IN IF shape_coords.raised THEN shape_coords
         ELSE IF shape_coords.value = None THEN Returned(None)
         ELSE Returned(Some(
                [id |-> edge_elem.id, from |-> edge_elem.from, to |-> edge_elem.to,
                 shape |-> shape_coords.value,
                 length |-> Get(attrs, "length", 10000),
                 speed |-> Get(attrs, "speed", 1389),
                 lanes |-> Get(attrs, "numLanes", 2)]))

\* the four integers the pattern of _extract_bounds_from_id finds in a
\* network id, for the ids it matches
IdNumbers ==
    [map_11000_10000_22000_20000 |-> <<11000, 10000, 22000, 20000>>,
     map_9500_10500_20500_21500 |-> <<9500, 10500, 20500, 21500>>,
     map_10500_9500_21500_19500 |-> <<10500, 9500, 21500, 19500>>,
     map_12000_10500_23000_21500 |-> <<12000, 10500, 23000, 21500>>,
     map_10000_10000_20000_20000 |-> <<10000, 10000, 20000, 20000>>,
     map_5000_4000_3000_2000 |-> <<5000, 4000, 3000, 2000>>]

RatMax(a, b) == IF RatLess(a, b) THEN b ELSE a

RatLeq(a, b) == ~RatLess(b, a)

\* _extract_bounds_from_id: the box in degrees, None for an id without one
extract_bounds_from_id(network_id) ==
    IF network_id \notin DOMAIN IdNumbers THEN None
    ELSE LET m == IdNumbers[network_id]
             north == Rat(m[1], 1000)
             south == Rat(m[2], 1000)
             east == Rat(m[3], 1000)
             west == Rat(m[4], 1000)
         IN Some([north |-> RatMax(north, south), south |-> RatMin(north, south),
                  east |-> RatMax(east, west), west |-> RatMin(east, west)])

\* the values of the entries of a list that are not None
present(s) ==
    LET kept == SelectSeq(s, LAMBDA d : d # None)
    IN [i \in 1..Len(kept) |-> kept[i][1]]

\* the edge loop of _parse_network_xml over the parsed nodes
parse_edges(net, nodes) ==
    CHOOSE result \in
      {IF \E i \in 1..Len(edge_data) : edge_data[i].raised
       THEN LET i == CHOOSE k \in 1..Len(edge_data) :
                        /\ edge_data[k].raised
                        /\ \A j \in 1..(k - 1) : ~edge_data[j].raised
            IN Raised(<<"Error parsing network XML: ">> \o edge_data[i].message)
       ELSE Returned([nodes |-> nodes,
                      edges |-> present([i \in 1..Len(edge_data) |-> edge_data[i].value]),
                      bounds |-> extract_bounds_from_id(net.id)]) :
         edge_data \in {[i \in 1..Len(net.edges) |-> parse_edge_element(net.edges[i], nodes)]}} :
      TRUE

\* _parse_network_xml: the nodes and the edges of the file and the box of
\* its id; any exception leaves as "Error parsing network XML: ..."
parse_network_xml(net) ==
    CHOOSE result \in
      {parse_edges(net, nodes) :
         nodes \in {present([i \in 1..Len(net.nodes) |->
                               parse_node_element(NodeElements[net.nodes[i]])])}} :
      TRUE

\* variant: the edges are kept when one of their ends is inside the box
filter_by_bounds_either_end(nodes, edges, bounds) ==
    LET in_bbox(node) ==
            /\ node.lon # None /\ node.lat # None
            /\ RatLeq(bounds.west, Rat(node.lon[1], 1)) /\ RatLeq(Rat(node.lon[1], 1), bounds.east)
            /\ RatLeq(bounds.south, Rat(node.lat[1], 1)) /\ RatLeq(Rat(node.lat[1], 1), bounds.north)
        filtered_nodes == SelectSeq(nodes, in_bbox)
        node_ids == {filtered_nodes[i].id : i \in 1..Len(filtered_nodes)}
    IN [nodes |-> filtered_nodes,
        edges |-> SelectSeq(edges, LAMBDA e : e.from \in node_ids \/ e.to \in node_ids)]

\* _filter_by_bounds: the nodes inside the box and the edges between them
filter_by_bounds(nodes, edges, bounds) ==
    LET in_bbox(node) ==
            /\ node.lon # None /\ node.lat # None
            /\ RatLeq(bounds.west, Rat(node.lon[1], 1)) /\ RatLeq(Rat(node.lon[1], 1), bounds.east)
            /\ RatLeq(bounds.south, Rat(node.lat[1], 1)) /\ RatLeq(Rat(node.lat[1], 1), bounds.north)
        filtered_nodes == SelectSeq(nodes, in_bbox)
        node_ids == {filtered_nodes[i].id : i \in 1..Len(filtered_nodes)}
    IN [nodes |-> filtered_nodes,
        edges |-> SelectSeq(edges, LAMBDA e : e.from \in node_ids /\ e.to \in node_ids)]

RECURSIVE MinOf(_)
MinOf(q) ==
    IF Len(q) = 1 THEN q[1] ELSE RatMin(q[1], MinOf(Tail(q)))

RECURSIVE MaxOf(_)
MaxOf(q) ==
    IF Len(q) = 1 THEN q[1]
    ELSE LET m == MaxOf(Tail(q)) IN IF RatLess(q[1], m) THEN m ELSE q[1]

RatSub(a, b) == Rat(a.num * b.den - b.num * a.den, a.den * b.den)

(* ---------------------------------------------------------------------- *)
(* The doubles of _calculate_normalized_bounds.  The coordinates of the   *)
(* file are integers, so the differences and halves it takes are exact;   *)
(* 200 / range and the product with it are rounded.                       *)
(* ---------------------------------------------------------------------- *)
\* min(a, b) of two doubles greater than zero
float_min(a, b) == IF float_less(b, a) THEN b ELSE a

\* a double that is not zero as a coordinate of the model: the ratio
\* [num, den] when its mantissa ends within 24 digits, and otherwise its
\* sign, the parts of its mantissa and its exponent
as_number(neg, d) ==
    LET head == d.hi \div 8
        zeros == CHOOSE t \in 0..23 : head % (2 ^ t) = 0 /\ head % (2 ^ (t + 1)) # 0
        last == 24 - zeros
        shift == d.exp - (last - 1)
        value == head \div (2 ^ zeros)
    IN IF d.lo = 0 /\ d.hi % 8 = 0 /\ shift >= -24 /\ last + shift <= 30
       THEN IF shift >= 0
            THEN Rat((IF neg THEN -1 ELSE 1) * value * (2 ^ shift), 1)
            ELSE Rat((IF neg THEN -1 ELSE 1) * value, 2 ^ (-shift))
       ELSE [neg |-> neg, hi |-> d.hi, lo |-> d.lo, exp |-> d.exp]

\* the rescaling of _calculate_normalized_bounds for a box with extent:
\* (x - xmin - x_range / 2) * scale_factor for every node, likewise y;
\* k is twice the difference, which is an integer, and halving is exact
normalized_nodes(nodes, bounds_dict) ==
    LET x_range == RatSub(bounds_dict.xmax, bounds_dict.xmin)
        y_range == RatSub(bounds_dict.ymax, bounds_dict.ymin)
        scaled(k, scale_factor) ==
            IF k = 0 THEN Rat(0, 1)
            ELSE as_number(k < 0, [float_mul_int(scale_factor, Abs(k)) EXCEPT !.exp = @ - 1])
    IN CHOOSE result \in
         {[i \in 1..Len(nodes) |->
             [nodes[i] EXCEPT
                !.x = scaled(2 * (@.num - bounds_dict.xmin.num) - x_range.num, scale_factor),
                !.y = scaled(2 * (@.num - bounds_dict.ymin.num) - y_range.num, scale_factor)]] :
            scale_factor \in {float_min(float_of(200, x_range.num),
                                        float_of(200, y_range.num))}} :
         TRUE

\* variant: a bounding box without extent is reported as the empty one
calculate_normalized_bounds_zeroed(nodes) ==
    IF nodes = <<>>
    THEN [bounds |-> [xmin |-> Rat(0, 1), ymin |-> Rat(0, 1),
                      xmax |-> Rat(0, 1), ymax |-> Rat(0, 1)],
          nodes |-> nodes]
    ELSE
      LET x_coords == [i \in 1..Len(nodes) |-> nodes[i].x]
          y_coords == [i \in 1..Len(nodes) |-> nodes[i].y]
          bounds_dict == [xmin |-> MinOf(x_coords), ymin |-> MinOf(y_coords),
                          xmax |-> MaxOf(x_coords), ymax |-> MaxOf(y_coords)]
          x_range == RatSub(bounds_dict.xmax, bounds_dict.xmin)
          y_range == RatSub(bounds_dict.ymax, bounds_dict.ymin)
      IN IF x_range.num > 0 /\ y_range.num > 0
         THEN [bounds |-> [xmin |-> Rat(-100, 1), ymin |-> Rat(-100, 1),
                           xmax |-> Rat(100, 1), ymax |-> Rat(100, 1)],
               nodes |-> normalized_nodes(nodes, bounds_dict)]
         ELSE [bounds |-> [xmin |-> Rat(0, 1), ymin |-> Rat(0, 1),
                           xmax |-> Rat(0, 1), ymax |-> Rat(0, 1)],
               nodes |-> nodes]

\* _calculate_normalized_bounds: the bounds returned and the node list as
\* the call leaves it
calculate_normalized_bounds(nodes) ==
    IF nodes = <<>>
    THEN [bounds |-> [xmin |-> Rat(0, 1), ymin |-> Rat(0, 1),
                      xmax |-> Rat(0, 1), ymax |-> Rat(0, 1)],
          nodes |-> nodes]
    ELSE
      LET x_coords == [i \in 1..Len(nodes) |-> nodes[i].x]
          y_coords == [i \in 1..Len(nodes) |-> nodes[i].y]
          bounds_dict == [xmin |-> MinOf(x_coords), ymin |-> MinOf(y_coords),
                          xmax |-> MaxOf(x_coords), ymax |-> MaxOf(y_coords)]
          x_range == RatSub(bounds_dict.xmax, bounds_dict.xmin)
          y_range == RatSub(bounds_dict.ymax, bounds_dict.ymin)
      IN IF x_range.num > 0 /\ y_range.num > 0
         THEN [bounds |-> [xmin |-> Rat(-100, 1), ymin |-> Rat(-100, 1),
                           xmax |-> Rat(100, 1), ymax |-> Rat(100, 1)],
               nodes |-> normalized_nodes(nodes, bounds_dict)]
         ELSE [bounds |-> bounds_dict, nodes |-> nodes]

\* the steps of get_network_data after the parse: the filter by the box of
\* the id when there is one, and the normalized coordinates
network_data_of(net, parsed) ==
    CHOOSE result \in
      {LET normalized == calculate_normalized_bounds(kept.nodes)
       IN [id |-> net.id, name |-> net.id, nodes |-> normalized.nodes,
           edges |-> kept.edges, bounds |-> normalized.bounds,
           status |-> "converted", message |-> "Network data extracted successfully"] :
         kept \in {IF parsed.bounds # None
                   THEN filter_by_bounds(parsed.nodes, parsed.edges, parsed.bounds[1])
                   ELSE [nodes |-> parsed.nodes, edges |-> parsed.edges]}} :
      TRUE

\* get_network_data: the parsed graph, filtered and normalized; an
\* exception leaves as "Error getting network data: ..."
get_network_data(net) ==
    CHOOSE result \in
      {IF parsed.raised
       THEN Raised(<<"Error getting network data: ">> \o parsed.message)
       ELSE Returned(network_data_of(net, parsed.value)) :
         parsed \in {parse_network_xml(net)}} :
      TRUE

(* ---------------------------------------------------------------------- *)
(* The other documents of the bundle                                       *)
(* ---------------------------------------------------------------------- *)
\* create_nodes_file: one node element per node
create_nodes_file(nodes) ==
    [i \in 1..Len(nodes) |->
       [tag |-> "node", id |-> Get(nodes[i], "id", "unknown"),
        x |-> Get(nodes[i], "x", Rat(0, 1)), y |-> Get(nodes[i], "y", Rat(0, 1)),
        type |-> Get(nodes[i], "type", "priority")]]

\* create_edges_file: one edge element per edge
create_edges_file(edges) ==
    [i \in 1..Len(edges) |->
       [tag |-> "edge", id |-> Get(edges[i], "id", "unknown"),
        from |-> Get(edges[i], "from", "unknown"), to |-> Get(edges[i], "to", "unknown"),
        numLanes |-> Get(edges[i], "numLanes", 1),
        speed |-> Get(edges[i], "speed", 1389)]]

\* create_traffic_lights_file: an additional file without elements
create_traffic_lights_file(nodes) == <<>>

\* create_sumo_config: the input files and the time window
create_sumo_config(net_file, route_file, additional_file, simulation_time) ==
    [net_file |-> net_file, route_files |-> route_file,
     additional_files |-> IF additional_file # None /\ additional_file # Some("")
                          THEN additional_file ELSE None,
     begin |-> 0, end |-> simulation_time]

\* create_run_script: the script, which names the simulation
create_run_script(simulation_name) == [script |-> "run_simulation.py", name |-> simulation_name]

\* the names of the files of an exported bundle, in the order written
BundleFiles ==
    <<"nodes.nod.xml", "edges.edg.xml", "traffic_lights.add.xml", "routes.rou.xml",
      "simulation.sumocfg", "run_simulation.py", "simulation_metadata.json">>

\* variant: the loader also requires a list of vehicle types
required_fields_extended ==
    <<"simulation_info", "network_data", "nodes", "edges", "simulation_config",
      "selected_points", "routes", "vehicle_types">>

\* the top-level fields load_simulation_metadata requires
required_fields ==
    <<"simulation_info", "network_data", "nodes", "edges", "simulation_config",
      "selected_points", "routes">>

\* the metadata dictionary built by create_simulation_metadata_json
metadata_dict(network_data, routes, simulation_config, selected_entry_points, selected_exit_points, vehicle_distribution, now) ==
    LET nodes == Get(network_data, "nodes", <<>>)
        edges == Get(network_data, "edges", <<>>)
    IN [simulation_info |->
          [name |-> Get(simulation_config, "name", <<"simulation">>),
           created_at |-> Time(now, 10), version |-> "1.0",
           description |-> "SUMO simulation metadata for reconstruction"],
        network_data |->
          [id |-> Get(network_data, "id", ""), name |-> Get(network_data, "name", ""),
           bounds |-> Get(network_data, "bounds", None),
           node_count |-> Len(nodes), edge_count |-> Len(edges)],
        nodes |->
          [i \in 1..Len(nodes) |->
             [id |-> nodes[i].id, x |-> nodes[i].x, y |-> nodes[i].y,
              lat |-> nodes[i].lat, lon |-> nodes[i].lon,
              type |-> Get(nodes[i], "type", "priority"),
              is_entry_point |-> nodes[i].id \in Range(selected_entry_points),
              is_exit_point |-> nodes[i].id \in Range(selected_exit_points)]],
        edges |->
          [i \in 1..Len(edges) |->
             [id |-> edges[i].id, from |-> edges[i].from, to |-> edges[i].to,
              shape |-> edges[i].shape, length |-> edges[i].length,
              speed |-> edges[i].speed, lanes |-> edges[i].lanes]],
        simulation_config |->
          [total_vehicles |-> Get(simulation_config, "total_vehicles", 100),
           simulation_time |-> Get(simulation_config, "simulation_time", 3600),
           random_seed |-> Get(simulation_config, "random_seed", None),
           vehicle_distribution |->
             [i \in 1..Len(vehicle_distribution) |->
                [vehicle_type |-> vehicle_distribution[i].vehicle_type,
                 percentage |-> vehicle_distribution[i].percentage,
                 color |-> vehicle_distribution[i].color,
                 period |-> Get(vehicle_distribution[i], "period", 45),
                 attributes |-> Get(vehicle_distribution[i], "attributes", None)]]],
        selected_points |->
          [entry_points |-> selected_entry_points, exit_points |-> selected_exit_points],
        routes |->
          [i \in 1..Len(routes) |->
             [id |-> Get(routes[i], "id", None),
              edges |-> Get(routes[i], "edges", <<>>),
              vehicle_type |-> Get(routes[i], "vehicle_type", "car"),
              depart_time |-> Get(routes[i], "depart_time", Time(0, 1)),
              color |-> Get(routes[i], "color", "yellow")]],
        reconstruction_info |->
          [file_structure |-> [f \in Range(BundleFiles) |-> "description"]]]

\* a JSON array
json_array(seq) == [array |-> seq]

\* variant: the edge sequences of the routes are not written
json_dumps_without_paths(metadata) ==
    [metadata EXCEPT
       !.nodes = json_array(@),
       !.edges = json_array(
                   [i \in 1..Len(@) |->
                      [@[i] EXCEPT
                         !.shape = json_array([j \in 1..Len(@) |-> json_array(@[j].tuple)])]]),
       !.simulation_config.vehicle_distribution = json_array(@),
       !.selected_points.entry_points = json_array(@),
       !.selected_points.exit_points = json_array(@),
       !.routes = json_array([i \in 1..Len(@) |-> [@[i] EXCEPT !.edges = <<>>]])]

\* json.dumps of the metadata dictionary: dictionaries become objects, lists
\* and tuples both become arrays; strings, numbers and None (null) are
\* written so that they read back as they were
json_dumps(metadata) ==
    [metadata EXCEPT
       !.nodes = json_array(@),
       !.edges = json_array(
                   [i \in 1..Len(@) |->
                      [@[i] EXCEPT
                         !.shape = json_array([j \in 1..Len(@) |-> json_array(@[j].tuple)])]]),
       !.simulation_config.vehicle_distribution = json_array(@),
       !.selected_points.entry_points = json_array(@),
       !.selected_points.exit_points = json_array(@),
       !.routes = json_array(@)]

\* json.loads of a metadata document: objects become dictionaries and arrays
\* become lists
json_loads(text) ==
    [k \in DOMAIN text |->
       IF k \in {"nodes", "routes"} THEN text[k].array
       ELSE IF k = "edges"
       THEN [i \in 1..Len(text[k].array) |->
               [text[k].array[i] EXCEPT
                  !.shape = [j \in 1..Len(@.array) |-> @.array[j].array]]]
       ELSE IF k = "simulation_config"
       THEN [text[k] EXCEPT !.vehicle_distribution = @.array]
       ELSE IF k = "selected_points"
       THEN [text[k] EXCEPT !.entry_points = @.array, !.exit_points = @.array]
       ELSE text[k]]

create_simulation_metadata_json(network_data, routes, simulation_config, selected_entry_points, selected_exit_points, vehicle_distribution, now) ==
    json_dumps(metadata_dict(network_data, routes, simulation_config,
                             selected_entry_points, selected_exit_points,
                             vehicle_distribution, now))

\* the documents rendered by SUMOExportService.export_simulation, by file name
export_documents(network_data, routes, simulation_config, selected_entry_points, selected_exit_points, vehicle_distribution, now) ==
    LET nodes == Get(network_data, "nodes", <<>>)
        edges == Get(network_data, "edges", <<>>)
    IN [nodes |-> create_nodes_file(nodes),
        edges |-> create_edges_file(edges),
        traffic_lights |-> create_traffic_lights_file(nodes),
        routes |-> create_route_file(routes),
        sumocfg |-> create_sumo_config("network.net.xml", "routes.rou.xml",
                                       Some("traffic_lights.add.xml"),
                                       Get(simulation_config, "simulation_time", 200)),
        run_script |-> create_run_script(Get(simulation_config, "name", <<"simulation">>)),
        metadata |-> create_simulation_metadata_json(
                        network_data, routes, simulation_config, selected_entry_points,
                        selected_exit_points, vehicle_distribution, now)]

(* ---------------------------------------------------------------------- *)
(* What a service call does outside the process: its temporary directory, *)
(* the files written there, the archive in the exports directory and the   *)
(* external programs started.  "partial" stands for any strict part.       *)
(* ---------------------------------------------------------------------- *)
NoEffects ==
    [fault |-> "none", temp_dir |-> "none", written |-> "none", zip |-> "none",
     started |-> {}]

\* the places where export_simulation of the service can raise ("render
\* network": create_nodes_file, create_edges_file, create_traffic_lights_file
\* or create_route_file raises, so no routes document exists; "render": a
\* document rendered after the routes document raises)
ExportFaults == {"none", "mkdtemp", "render network", "render", "write", "zip", "rmtree"}

\* variant: the archive is opened before the documents are rendered
export_effects_eager_archive(fault) ==
    [NoEffects EXCEPT
       !.fault = fault,
       !.temp_dir = IF fault = "mkdtemp" THEN "none"
                    ELSE IF fault = "none" THEN "removed" ELSE "left",
       !.written = IF fault \in {"mkdtemp", "render network", "render"} THEN "none"
                   ELSE IF fault = "write" THEN "partial" ELSE "all",
       !.zip = IF fault = "mkdtemp" THEN "none"
               ELSE IF fault \in {"render network", "render", "write", "zip"} THEN "partial"
               ELSE "complete"]

\* SUMOExportService.export_simulation up to its return or its except clause
\* (which removes nothing): the documents are rendered, then written to the
\* temporary directory, then added to the archive, then the directory is
\* removed
export_effects(fault) ==
    [NoEffects EXCEPT
       !.fault = fault,
       !.temp_dir = IF fault = "mkdtemp" THEN "none"
                    ELSE IF fault = "none" THEN "removed" ELSE "left",
       !.written = IF fault \in {"mkdtemp", "render network", "render"} THEN "none"
                   ELSE IF fault = "write" THEN "partial" ELSE "all",
       !.zip = IF fault \in {"mkdtemp", "render network", "render", "write"} THEN "none"
               ELSE IF fault = "zip" THEN "partial" ELSE "complete"]

\* the places where run_simulation_with_gui of the service can raise
\* ("no netconvert", "no sumo-gui": the program is not installed and
\* subprocess raises FileNotFoundError; "netconvert": it returns a non-zero
\* code; "sumo-gui": it has ended within a second)
RunFaults == {"none", "mkdtemp", "render network", "render", "write", "no netconvert",
              "netconvert", "no sumo-gui", "sumo-gui"}

\* SUMOExportService.run_simulation_with_gui; its except clause tries to
\* remove the temporary directory and goes on when shutil.rmtree raises
\* (`cleanup`: the removal succeeded)
run_effects(fault, cleanup) ==
    [NoEffects EXCEPT
       !.fault = fault,
       !.temp_dir = IF fault = "mkdtemp" THEN "none"
                    ELSE IF fault = "none" \/ ~cleanup THEN "left" ELSE "removed",
       !.written = IF fault \in {"mkdtemp", "render network", "render"} THEN "none"
                   ELSE IF fault = "write" THEN "partial" ELSE "all",
       !.started = IF fault \in {"mkdtemp", "render network", "render", "write",
                                 "no netconvert"} THEN {}
                   ELSE IF fault \in {"netconvert", "no sumo-gui"} THEN {"netconvert"}
                   ELSE {"netconvert", "sumo-gui"}]

service_effects(kind, fault, cleanup) ==
    IF kind = "export" THEN export_effects(fault) ELSE run_effects(fault, cleanup)

(* ---------------------------------------------------------------------- *)
(* The WebSocket registry of main.py                                       *)
(* ---------------------------------------------------------------------- *)
\* the WebSocket objects of the clients that may connect
Sockets == {"w1", "w2"}

\* no broadcast_message call is running
NoBroadcast == [running |-> FALSE, index |-> 0, sending |-> "none", disconnected |-> <<>>]

(* ---------------------------------------------------------------------- *)
(* Initial state                                                           *)
(* ---------------------------------------------------------------------- *)
Init ==
    /\ rng = Unknown
    /\ request = None
    /\ vehicle_counts = <<>>
    /\ routes_data = <<>>
    /\ picks = <<>>
    /\ route_content = <<>>
    /\ response = None
    /\ memo = None
    /\ effects = NoEffects
    /\ bundle = None
    /\ loaded = None
    /\ active_connections = <<>>
    /\ handlers = [w \in Sockets |-> "new"]
    /\ peers = [w \in Sockets |-> "open"]
    /\ broadcast = NoBroadcast
    /\ failed_removals = {}

(* ---------------------------------------------------------------------- *)
(* The two request handlers of main.py                                     *)
(* ---------------------------------------------------------------------- *)
\* variant: only the entry selection is validated
validation_error_entry_only(cfg) ==
    IF cfg.entry_points = <<>> THEN Some("No entry points selected") ELSE None

\* the validation of the selected entry and exit points: the detail of the
\* HTTPException raised, if any
validation_error(cfg) ==
    IF cfg.entry_points = <<>> THEN Some("No entry points selected")
    ELSE IF cfg.exit_points = <<>> THEN Some("No exit points selected")
    ELSE None

\* the generator result standing for a generator that was not called
not_called(s) ==
    [raised |-> FALSE, message |-> <<>>, rng |-> s, counts |-> <<>>, routes |-> <<>>,
     picks |-> <<>>]

\* what follows a successful generation: the rendering of the files and
\* the work on the file system or with the external tools, which may fail
HandlerReply(kind, cfg, gen, fault) ==
    IF validation_error(cfg) # None THEN Reply(400, str_http(validation_error(cfg)[1]))
    ELSE IF gen.raised THEN Reply(400, gen.message)
    ELSE IF gen.routes = <<>> THEN Reply(400, no_valid_routes)
    ELSE IF fault # "none"
         THEN Reply(400, <<IF kind = "export" THEN "Export error"
                           ELSE "Error running simulation">>)
    ELSE Reply(200, <<IF kind = "export" THEN "zip" ELSE "running">>)

\* network_data = await map_service.get_network_data(network_id), for the
\* networks a request may name
NetworkData == [net \in Networks \cup {NetRing} |-> get_network_data(net).value]

\* config_data of the handlers: the simulation time and f"simulation_{network_id}"
config_data(cfg) ==
    [simulation_time |-> cfg.simulation_time, name |-> <<"simulation", cfg.network.id>>]

\* the values time.time() takes while a request is handled, in tenths of
\* a second (1000.9 and 1001.2)
Clock == {10009, 10012}

\* the service is called when the generator returned routes
service_called(cfg, gen) ==
    validation_error(cfg) = None /\ ~gen.raised /\ gen.routes # <<>>

\* zip_filename = f"simulation_{int(time.time())}.zip" under exports_dir, for
\* a clock reading in tenths of a second
zip_path(now) == <<"static/exports/simulation_", ToString(now \div 10), ".zip">>

\* the outputs the generator of a process may produce during a call when
\* nothing is known of its state: one output per draw, each accepted by the
\* draw that reads it (when the loop draws from a seeded generator the
\* outputs are determined and nothing is chosen)
HiddenStreams(state, cfg, plan) ==
    IF \/ seed_stream(stream_of(state, <<>>), cfg.random_seed).seed # None
       \/ validation_error(cfg) # None
       \/ plan.rejected
    THEN {<<>>}
    ELSE LET draws == 2 * SumValues(plan.counts)
             longest == Max(Len(cfg.entry_points), Len(cfg.exit_points))
         IN {w \in [1..draws -> 0..(longest - 1)] :
               \A i \in 1..draws :
                  w[i] < Len(IF i % 2 = 1 THEN cfg.entry_points ELSE cfg.exit_points)}

\* return FileResponse(zip_path, filename=filename, media_type="application/zip")
FileResponse(path) == Some([status |-> 200, detail |-> <<"zip">>, path |-> path])

\* vehicle_plan for every distribution and total of the requests
VehiclePlans ==
    [dist \in Distributions, total \in 1..MaxVehicles |->
       vehicle_plan([vehicle_distribution |-> dist, total_vehicles |-> total])]

\* one request from validation to response; outcomes is the set of places
\* where the service, if it is called, may fail ("none": it succeeds)
Handle(kind, cfg, outcomes, keep) ==
    /\ Idle
    \* routes_data = sumo_service.generate_routes_with_vehicles(...): what
    \* the call does before it draws is the same for every stream
    /\ \E plan \in {VehiclePlans[cfg.vehicle_distribution, cfg.total_vehicles]} :
       \E hidden \in HiddenStreams(rng, cfg, plan) :
       \E stream \in {stream_of(rng, hidden)} :
       \E gen \in {IF validation_error(cfg) = None
                    THEN route_vehicles(stream, cfg, plan) ELSE not_called(stream)} :
       \E fault \in IF service_called(cfg, gen) THEN outcomes ELSE {"none"} :
       \* shutil.rmtree in the except clause of run_simulation_with_gui
       \E cleanup \in IF service_called(cfg, gen) /\ kind = "run"
                         /\ fault \notin {"none", "mkdtemp"}
                      THEN BOOLEAN ELSE {TRUE} :
       \* time.time() is read for created_at and again for the archive name
       \E created \in IF service_called(cfg, gen) /\ kind = "export" /\ fault = "none"
                      THEN Clock ELSE {10009} :
       \E now \in IF service_called(cfg, gen) /\ kind = "export" /\ fault = "none"
                  THEN {t \in Clock : t >= created} ELSE {10009} :
       \* the archive the client receives
       \E archive \in {IF service_called(cfg, gen) /\ kind = "export" /\ fault = "none"
                        THEN Some(export_documents(NetworkData[cfg.network], gen.routes,
                                                   config_data(cfg), cfg.entry_points,
                                                   cfg.exit_points, cfg.vehicle_distribution,
                                                   created))
                        ELSE None} :
       \E reply \in {IF archive # None THEN FileResponse(zip_path(now))
                      ELSE HandlerReply(kind, cfg, gen, fault)} :
         LET validated == validation_error(cfg) = None
             generated == validated /\ ~gen.raised
             kept == keep /\ memo = None /\ generated /\ cfg.random_seed # None
         IN \* a stream that continues a seeded one is followed for MaxWords outputs
            /\ gen.rng.seed = None \/ cfg.random_seed # None \/ gen.rng.pos <= MaxWords
            /\ request' = Some([kind |-> kind, config |-> cfg, kept |-> kept])
            /\ rng' = IF validated THEN state_of(gen.rng) ELSE rng
            /\ vehicle_counts' = IF validated THEN gen.counts ELSE <<>>
            /\ routes_data' = IF generated THEN gen.routes ELSE <<>>
            /\ picks' = IF generated THEN gen.picks ELSE <<>>
            \* route_content = self.create_route_file(routes), in the service
            /\ route_content' = IF /\ generated
                                   /\ gen.routes # <<>>
                                   /\ fault \notin {"mkdtemp", "render network"}
                                THEN create_route_file(gen.routes) ELSE <<>>
            /\ response' = reply
            /\ effects' = IF generated /\ gen.routes # <<>>
                          THEN service_effects(kind, fault, cleanup) ELSE NoEffects
            /\ bundle' = archive
            /\ UNCHANGED loaded
            /\ UNCHANGED sockets
            \* history: one earlier seeded call is kept for comparison
            /\ memo' = IF kept
                       THEN Some([config |-> cfg, routes |-> gen.routes,
                                  reply |-> reply, bundle |-> archive])
                       ELSE memo

\* the requests that carry no seed (those that carry one are followed in
\* SpecRepro)
UnseededConfigs == {cfg \in Configs : cfg.random_seed = None}

\* POST /api/simulations/export/{network_id}
export_simulation ==
    \E cfg \in UnseededConfigs : Handle("export", cfg, ExportFaults, FALSE)

\* POST /api/simulations/run/{network_id}
run_simulation_with_gui ==
    \E cfg \in UnseededConfigs : Handle("run", cfg, RunFaults, FALSE)

\* a caller of the service renders the routes document of a route list it
\* holds (a scenario rebuilt from its metadata, say)
create_route_file_call ==
    \E routes \in RouteLists :
       /\ Idle
       /\ request' = Some([kind |-> "routes", routes |-> routes])
       /\ routes_data' = routes
       /\ route_content' = create_route_file(routes)
       /\ response' = Reply(200, <<"routes">>)
       /\ UNCHANGED <<rng, vehicle_counts, picks, memo, effects, bundle, loaded>>
       /\ UNCHANGED sockets

\* the files a client may send to POST /api/simulations/load-metadata once
\* it holds the documents docs of an export: the archive, the metadata file
\* alone, an archive without the metadata file, a file named .zip that is
\* no archive, a metadata file without its routes, a file that is not
\* JSON, an archive whose metadata member is not JSON, the archive under
\* a name in .json, a .json file and a metadata member whose bytes are not
\* UTF-8, a file of another kind.  archive: the content is a ZIP archive,
\* with the members names; text: the bytes read as JSON (the metadata
\* member of the archive, or the file itself) decode as UTF-8; json: the
\* JSON document they hold, if they hold one
Uploads(docs) ==
    { [suffix |-> ".zip", archive |-> TRUE, names |-> BundleFiles, text |-> TRUE,
       json |-> Some(docs.metadata)],
      [suffix |-> ".json", archive |-> FALSE, names |-> <<>>, text |-> TRUE,
       json |-> Some(docs.metadata)],
      [suffix |-> ".zip", archive |-> TRUE, names |-> SubSeq(BundleFiles, 1, 6),
       text |-> TRUE, json |-> None],
      [suffix |-> ".zip", archive |-> FALSE, names |-> <<>>, text |-> TRUE, json |-> None],
      [suffix |-> ".json", archive |-> FALSE, names |-> <<>>, text |-> TRUE,
       json |-> Some([f \in DOMAIN docs.metadata \ {"routes"} |-> docs.metadata[f]])],
      [suffix |-> ".json", archive |-> FALSE, names |-> <<>>, text |-> TRUE, json |-> None],
      [suffix |-> ".zip", archive |-> TRUE, names |-> BundleFiles, text |-> TRUE,
       json |-> None],
      [suffix |-> ".json", archive |-> TRUE, names |-> BundleFiles, text |-> FALSE,
       json |-> None],
      [suffix |-> ".json", archive |-> FALSE, names |-> <<>>, text |-> FALSE, json |-> None],
      [suffix |-> ".zip", archive |-> TRUE, names |-> BundleFiles, text |-> FALSE,
       json |-> None],
      [suffix |-> ".txt", archive |-> FALSE, names |-> <<>>, text |-> TRUE, json |-> None] }

LoadFailure(detail) == [status |-> 400, detail |-> detail, body |-> None]

\* the first required field the metadata lacks, if any
missing_field(metadata) ==
    LET lacking == {i \in 1..Len(required_fields) : required_fields[i] \notin DOMAIN metadata}
    IN IF lacking = {} THEN None
       ELSE Some(required_fields[CHOOSE i \in lacking : \A j \in lacking : i <= j])

\* the body of load_simulation_metadata on metadata read from the upload
load_validated(metadata) ==
    IF missing_field(metadata) # None
    THEN LoadFailure(str_http(<<"Missing required field", missing_field(metadata)[1]>>))
    ELSE [status |-> 200, detail |-> <<"success">>,
          body |-> Some([metadata |-> metadata,
                         simulation_name |-> metadata.simulation_info.name,
                         network_id |-> metadata.network_data.id,
                         node_count |-> metadata.network_data.node_count,
                         edge_count |-> metadata.network_data.edge_count])]

\* load_simulation_metadata on an uploaded file.  An HTTPException raised
\* while the archive is open is caught by the except clause of the inner
\* try block, which puts its text into a new one, and that one by the
\* except clause of the handler.  The UnicodeDecodeError of a .json file
\* is not a JSONDecodeError: it reaches the except clause of the handler,
\* which answers with its text.
load_metadata_file(upload) ==
    IF upload.suffix = ".zip"
    THEN IF ~upload.archive
         THEN LoadFailure(str_http("Invalid ZIP file format"))
         ELSE IF "simulation_metadata.json" \notin Range(upload.names)
         THEN LoadFailure(str_http(<<"Error reading ZIP file",
                                     str_http("No simulation_metadata.json found in ZIP file")>>))
         ELSE IF ~upload.text
         THEN LoadFailure(str_http(<<"Error reading ZIP file",
                                     "'utf-8' codec can't decode byte">>))
         ELSE IF upload.json = None
         THEN LoadFailure(str_http(<<"Error reading ZIP file">>))
         ELSE load_validated(json_loads(upload.json[1]))
    ELSE IF upload.suffix = ".json"
    THEN IF ~upload.text
         THEN LoadFailure(<<"'utf-8' codec can't decode byte">>)
         ELSE IF upload.json = None
         THEN LoadFailure(str_http(<<"Invalid JSON format">>))
         ELSE load_validated(json_loads(upload.json[1]))
    ELSE LoadFailure(str_http(<<"Only .zip or .json files are supported">>))

\* POST /api/simulations/load-metadata, by a client that holds an export
load_simulation_metadata ==
    /\ bundle # None
    /\ loaded = None
    /\ \E upload \in Uploads(bundle[1]) :
          loaded' = Some([upload |-> upload, reply |-> load_metadata_file(upload)])
    /\ UNCHANGED <<rng, request, vehicle_counts, routes_data, picks, route_content,
                   response, memo, effects, bundle>>
    /\ UNCHANGED sockets

\* the response leaves and the data of the request is dropped
Deliver ==
    /\ ~Idle
    /\ request' = None
    /\ vehicle_counts' = <<>>
    /\ routes_data' = <<>>
    /\ picks' = <<>>
    /\ route_content' = <<>>
    /\ response' = None
    /\ effects' = NoEffects
    /\ bundle' = None
    /\ loaded' = None
    /\ UNCHANGED <<rng, memo>>
    /\ UNCHANGED sockets

Next == export_simulation \/ run_simulation_with_gui \/ create_route_file_call \/ Deliver

Spec == Init /\ [][Next]_vars


(* ---------------------------------------------------------------------- *)
(* The count computation alone, on the totals a request may carry          *)
(* (SimulationExportConfig.total_vehicles is 1..10000)                     *)
(* ---------------------------------------------------------------------- *)
PercentValues ==
    {0, 5, 25000, 29000, 42000, 49990, 50000, 50005, 50010, 58000, 71000, 75000, 75005,
     99995, 100000}

CountTotals == {1, 2, 3, 7, 100, 5000, 9999, 10000}

\* lines 305-317 of generate_routes_with_vehicles on one distribution
count_vehicles ==
    \E p \in PercentValues, q \in PercentValues, total \in CountTotals :
       LET dist == <<VD("car", p, "yellow"), VD("bus", q, "blue")>>
       IN /\ Idle
          /\ request' = Some([kind |-> "counts",
                              config |-> [vehicle_distribution |-> dist,
                                          total_vehicles |-> total]])
          /\ \E plan \in {vehicle_plan(request'[1].config)} :
                /\ vehicle_counts' = plan.counts
                /\ response' = IF plan.rejected
                               THEN Reply(400, rejection_message(dist))
                               ELSE Reply(200, <<"counts">>)
          /\ UNCHANGED <<rng, routes_data, picks, route_content, memo,
                          effects, bundle, loaded>>
          /\ UNCHANGED sockets

NextCounts == count_vehicles \/ Deliver

SpecCounts == Init /\ [][NextCounts]_vars

(* ---------------------------------------------------------------------- *)
(* Repeated seeded requests: one earlier call is kept in memo              *)
(* ---------------------------------------------------------------------- *)
ReproConfigs ==
    { cfg \in Configs :
        /\ cfg.network \in {NetNamed, NetDiamond}
        /\ Len(cfg.entry_points) = 2
        /\ Len(cfg.exit_points) >= 1
        /\ cfg.simulation_time = 100
        /\ SumPercentage(cfg.vehicle_distribution) = FULL_PERCENT
        /\ Len(cfg.vehicle_distribution) \in 1..2 }

repeated_request ==
    \E cfg \in ReproConfigs, keep \in BOOLEAN : Handle("export", cfg, {"none"}, keep)

NextRepro == repeated_request \/ Deliver

SpecRepro == Init /\ [][NextRepro]_vars


(* ---------------------------------------------------------------------- *)
(* Exports whose archive is loaded back                                    *)
(* ---------------------------------------------------------------------- *)
BundleConfigs ==
    { cfg \in Configs :
        /\ cfg.network \in {NetNamed, NetDiamond}
        /\ cfg.total_vehicles <= 2
        /\ cfg.simulation_time = 100
        /\ cfg.random_seed = None }

export_bundle ==
    \E cfg \in BundleConfigs : Handle("export", cfg, ExportFaults, FALSE)

NextBundle == export_bundle \/ load_simulation_metadata \/ Deliver

SpecBundle == Init /\ [][NextBundle]_vars

(* ---------------------------------------------------------------------- *)
(* The network queries of MapService: network data, entry and exit points. *)
(* get_entry_points and get_exit_points read the file with sumolib, whose  *)
(* edges know the edges connected to them by <connection> elements and     *)
(* whose nodes have the coordinates of their <junction> element.           *)
(* ---------------------------------------------------------------------- *)
\* networks of one node
NetSingle(n) == [id |-> "single", nodes |-> <<n>>, edges |-> <<>>]

\* a street with both directions between A and B
NetTwoWay == [id |-> "twoway", nodes |-> <<"A", "B">>,
              edges |-> <<Edge("e1", "A", "B"), Edge("e2", "B", "A")>>]

\* an edge of the file ends at Z, a node the file does not have
NetDangling == [id |-> "dangling", nodes |-> <<"A", "B">>,
                edges |-> <<Edge("A", "A", "B"), Edge("X", "B", "Z")>>]

\* an edge of the file ends at Q, whose element has no coordinates
NetUnlocated == [id |-> "unlocated", nodes |-> <<"A", "B", "Q">>,
                 edges |-> <<Edge("A", "A", "B"), Edge("X", "B", "Q")>>]

\* the first edge of the file has an attribute that is not a number
NetInvalid(i) == [id |-> "invalid", nodes |-> <<"A", "B", "C">>,
                  edges |-> <<Edge(i, "A", "B"), Edge("C", "B", "C")>>]

\* a street of 12.08 m from A to E, 11 m east and 5 m north of it
NetShort == [id |-> "short", nodes |-> <<"A", "E">>, edges |-> <<Edge("s1", "A", "E")>>]

\* the networks whose files have an element for every node they name
LocatedNetworks == Networks \cup {NetTwoWay, NetRing, NetShort}

SingleNetworks == {NetSingle(n) : n \in {"A", "B", "C", "D"}}

\* a network under an id that carries a bounding box
NetBoxed(net, id) == [net EXCEPT !.id = id]

QueryNetworks ==
    LocatedNetworks \cup SingleNetworks
      \cup {NetDangling, NetUnlocated}
      \cup {NetInvalid(i) : i \in DOMAIN InvalidAttributes}
      \cup {NetBoxed(net, id) : net \in LocatedNetworks, id \in DOMAIN IdNumbers}

\* the OSMnx graph G of a map: its nodes in order, the nodes whose data
\* carry x and those whose data carry y, the pairs (u, v) of its edges in
\* the order G.edges(data=True) yields them, and the edges (by position)
\* whose speed or length is not a number; the other edges carry no lanes,
\* speed or length, so the defaults are written for them
graph_of(net) ==
    [id |-> net.id, nodes |-> net.nodes, x |-> Range(net.nodes), y |-> Range(net.nodes),
     edges |-> [i \in 1..Len(net.edges) |-> <<net.edges[i].from, net.edges[i].to>>],
     invalid |-> {}]

\* the graphs converted: those of the networks, a graph without nodes, the
\* path with no coordinates at all, the path whose node C has none, the
\* path whose nodes carry x only, the street whose node A carries x only
\* and node B y only, and the path whose second edge has the speed 'fast'
Graphs ==
    {graph_of(net) : net \in LocatedNetworks \cup SingleNetworks}
      \cup {[id |-> "empty", nodes |-> <<>>, x |-> {}, y |-> {}, edges |-> <<>>,
             invalid |-> {}],
            [graph_of(NetPath) EXCEPT !.id = "nowhere", !.x = {}, !.y = {}],
            [graph_of(NetPath) EXCEPT !.id = "partly", !.x = {"A", "B"}, !.y = {"A", "B"}],
            [graph_of(NetPath) EXCEPT !.id = "xonly", !.y = {}],
            [graph_of(NetShort) EXCEPT !.id = "xy", !.x = {"A"}, !.y = {"E"}],
            [graph_of(NetPath) EXCEPT !.id = "fast", !.invalid = {2}]}

\* OSMNXService._create_sumo_network: whether it raised, with which text,
\* and the file it leaves at net_file.  It raises for a graph without
\* nodes, without edges, without an x or without a y before the file is
\* opened.  Then it writes a node element per node that carries x and y
\* and raises if there is none; it writes an edge element per edge, named
\* edge_<counter>_<u>_<v> with the counter from 0, and raises at the first
\* edge whose speed or length is not a number; it writes neither a
\* junction nor a connection element.  A raise after the file was opened
\* leaves the elements written so far, without the closing tags.
create_sumo_network(G) ==
    LET located == SelectSeq(G.nodes, LAMBDA n : n \in G.x \cap G.y)
        stop == IF G.invalid = {} THEN Len(G.edges) + 1
                ELSE CHOOSE i \in G.invalid : \A j \in G.invalid : i <= j
        file(opened, nodes, count, whole) ==
            [net |-> [id |-> G.id, nodes |-> nodes,
                      edges |-> [i \in 1..count |->
                                   Edge("edge_" \o ToString(i - 1) \o "_" \o G.edges[i][1]
                                          \o "_" \o G.edges[i][2],
                                        G.edges[i][1], G.edges[i][2])]],
             junctions |-> {}, connections |-> {}, exists |-> opened,
             well_formed |-> whole]
        raise(text, left) ==
            [raised |-> TRUE, message |-> <<"Error creating SUMO network: ", text>>,
             file |-> left]
    IN IF Len(G.nodes) = 0
       THEN raise("No nodes found in the graph", file(FALSE, <<>>, 0, FALSE))
       ELSE IF Len(G.edges) = 0
       THEN raise("No edges found in the graph", file(FALSE, <<>>, 0, FALSE))
       ELSE IF G.x = {} \/ G.y = {}
       THEN raise("No valid coordinates found in graph", file(FALSE, <<>>, 0, FALSE))
       ELSE IF located = <<>>
       THEN raise("No valid nodes with coordinates found", file(TRUE, <<>>, 0, FALSE))
       ELSE IF stop <= Len(G.edges)
       THEN raise("could not convert string to float", file(TRUE, located, stop - 1, FALSE))
       ELSE [raised |-> FALSE, message |-> <<>>,
             file |-> file(TRUE, located, Len(G.edges), TRUE)]

\* the file at the path of the network once convert_to_sumo has handled G
converted_file(G) == create_sumo_network(G).file

\* an uploaded file as netconvert builds it: a junction per node and a
\* connection from every edge to every edge that starts where it ends
built_file(net) ==
    [net |-> net, junctions |-> Range(net.nodes),
     connections |-> {c \in Range(net.edges) \X Range(net.edges) : c[1].to = c[2].from},
     exists |-> TRUE, well_formed |-> TRUE]

\* the same built without turnarounds: no connection leads back to the node
\* the edge came from
built_file_no_turnarounds(net) ==
    [built_file(net) EXCEPT
       !.connections = {c \in @ : c[2].to # c[1].from}]

NetworkFiles ==
    {converted_file(G) : G \in Graphs}
      \cup {built_file(net) : net \in LocatedNetworks \cup SingleNetworks}
      \cup {built_file_no_turnarounds(net) : net \in LocatedNetworks}

\* sumolib: edge.getIncoming() and edge.getOutgoing(), by connected edge
getIncoming(file, edge) == {c[1] : c \in {d \in file.connections : d[2] = edge}}

getOutgoing(file, edge) == {c[2] : c \in {d \in file.connections : d[1] = edge}}

\* a boundary point of an edge at node n: the coordinates of the node, or
\* 0, 0 when getCoord() fails for lack of them
boundary_point(file, edge, n) ==
    [id |-> edge.id,
     x |-> IF n \in file.junctions THEN Rat(NodeElements[n].x, 1) ELSE Rat(0, 1),
     y |-> IF n \in file.junctions THEN Rat(NodeElements[n].y, 1) ELSE Rat(0, 1),
     name |-> edge.id]

RECURSIVE boundary_points(_, _, _)
boundary_points(file, edges, side) ==
    IF edges = <<>> THEN <<>>
    ELSE LET edge == Head(edges)
             rest == boundary_points(file, Tail(edges), side)
         IN IF side = "entry"
            THEN IF Cardinality(getIncoming(file, edge)) = 0
                 THEN <<boundary_point(file, edge, edge.from)>> \o rest ELSE rest
            ELSE IF Cardinality(getOutgoing(file, edge)) = 0
                 THEN <<boundary_point(file, edge, edge.to)>> \o rest ELSE rest

\* a successful response with a body
ReplyWith(body) == Some([status |-> 200, detail |-> <<"ok">>, body |-> body])

\* what the service returns to the handler of a query
query_result(kind, input) ==
    IF kind = "network-data" THEN get_network_data(input)
    ELSE IF ~input.exists
    THEN Raised(<<IF kind = "entry-points" THEN "Error getting entry points: "
                  ELSE "Error getting exit points: ",
                  "Network file not found">>)
    \* sumolib.net.readNet raises the error of the XML parser
    ELSE IF ~input.well_formed
    THEN Raised(<<IF kind = "entry-points" THEN "Error getting entry points: "
                  ELSE "Error getting exit points: ",
                  "no element found">>)
    ELSE Returned(boundary_points(input, input.net.edges,
                                  IF kind = "entry-points" THEN "entry" ELSE "exit"))

Query(kind, input) ==
    /\ Idle
    /\ request' = Some([kind |-> kind, input |-> input])
    /\ response' = LET result == query_result(kind, input)
                   IN IF result.raised THEN Reply(404, result.message)
                      ELSE ReplyWith(result.value)
    /\ UNCHANGED <<rng, vehicle_counts, routes_data, picks, route_content, memo,
                   effects, bundle, loaded>>
    /\ UNCHANGED sockets

\* GET /api/networks/{network_id}
network_data_query ==
    \E net \in QueryNetworks : Query("network-data", net)

\* GET /api/networks/{network_id}/entry-points
get_entry_points ==
    \E file \in NetworkFiles : Query("entry-points", file)

\* GET /api/networks/{network_id}/exit-points
get_exit_points ==
    \E file \in NetworkFiles : Query("exit-points", file)

NextNetwork == network_data_query \/ get_entry_points \/ get_exit_points \/ Deliver

SpecNetwork == Init /\ [][NextNetwork]_vars

(* ---------------------------------------------------------------------- *)
(* generate_routes_with_vehicles on large totals, with one entry and one   *)
(* exit selected: every attempt draws the same pair, so the loop is        *)
(* written without recursion                                               *)
(* ---------------------------------------------------------------------- *)
SchedulePercents == {49990, 50000, 50005, 50010}

ScheduleTotals == {1, 2, 3, 10000}

\* the type of the k-th vehicle the two nested loops attempt (k from 1)
attempt_type(counts, k) ==
    counts[CHOOSE i \in 1..Len(counts) :
              /\ SumValues(SubSeq(counts, 1, i - 1)) < k
              /\ k <= SumValues(SubSeq(counts, 1, i))].key

\* the loop at lines 349-375 when each attempt picks the pair with the
\* path route_path: the k-th attempt appends the k-th assignment
\* the values global_depart takes over n passes that all route, `first`
\* being the value before the first pass
RECURSIVE accumulate(_, _, _)
accumulate(first, step, n) ==
    IF n = 0 THEN <<>>
    ELSE IF n = 1 THEN <<first>>
    ELSE CHOOSE result \in
           {head \o CHOOSE tail \in {accumulate(next, step, n - n \div 2) :
                                       next \in {depart_advance(head[n \div 2], step)}} :
                      TRUE :
              head \in {accumulate(first, step, n \div 2)}} :
           TRUE

routes_single_pick(inp, counts, route_path) ==
    CHOOSE result \in
      {[k \in 1..SumValues(counts) |->
          new_route(inp, attempt_type(counts, k), k - 1, departs[k], route_path)] :
         departs \in {accumulate(Zero, depart_step(inp), SumValues(counts))}} :
      TRUE

schedule_vehicles ==
    \E p \in SchedulePercents, q \in SchedulePercents, total \in ScheduleTotals,
       exit \in {<<"A">>, <<"B">>} :
       LET dist == <<VD("car", p, "yellow"), VD("bus", q, "blue")>>
           cfg == Config(NetNamed, total, dist, <<"A">>, exit, 60, None)
       IN /\ Idle
          \* no call of this specification seeds the generator, and a draw
          \* from a list of one element leaves an unknown state unknown
          /\ rng = Unknown
          /\ request' = Some([kind |-> "schedule", config |-> cfg])
          /\ IF distribution_rejected(dist)
             THEN /\ vehicle_counts' = <<>>
                  /\ routes_data' = <<>>
                  /\ picks' = <<>>
                  /\ rng' = rng
                  /\ response' = Reply(400, rejection_message(dist))
             ELSE \E counts \in {compute_vehicle_counts(dist, total)} :
                  \E route_path \in {dijkstra(NetNamed.edges, "A", exit[1])} :
                     /\ vehicle_counts' = counts
                     /\ routes_data' = IF route_skipped(route_path) THEN <<>>
                                       ELSE routes_single_pick(cfg, counts, route_path.path)
                     /\ picks' = IF route_skipped(route_path) THEN <<>>
                                 ELSE [k \in 1..SumValues(counts) |->
                                         [entry |-> "A", exit |-> exit[1], attempt |-> k - 1]]
                     /\ rng' = rng
                     /\ response' = Reply(200, <<"routes">>)
          /\ UNCHANGED <<route_content, memo, effects, bundle, loaded>>
          /\ UNCHANGED sockets

NextSchedule == schedule_vehicles \/ Deliver

SpecSchedule == Init /\ [][NextSchedule]_vars

(* ---------------------------------------------------------------------- *)
(* Exports on a network with self-loops and a cycle, the entry and exit    *)
(* selections naming up to three ids that are node ids of the search       *)
(* ---------------------------------------------------------------------- *)
SearchSelections ==
    {<<a>> : a \in Range(NetRing.nodes)}
      \cup {<<a, b>> : a, b \in Range(NetRing.nodes)}
      \cup {NetRing.nodes}

SearchConfigs ==
    { Config(NetRing, total, <<VD("car", 100000, "yellow")>>, entry, exit, 60, None) :
        total \in {1, 2}, entry \in SearchSelections, exit \in SearchSelections }

search_export ==
    \E cfg \in SearchConfigs : Handle("export", cfg, {"none"}, FALSE)

NextSearch == search_export \/ Deliver

SpecSearch == Init /\ [][NextSearch]_vars

(* ---------------------------------------------------------------------- *)
(* The WebSocket handlers and broadcast_message as tasks of one event      *)
(* loop: a task runs from one await to the next without interruption       *)
(* ---------------------------------------------------------------------- *)
\* list.remove(x): the list without the first occurrence of x, ValueError
\* if there is none
list_remove(list, x) ==
    IF x \notin Range(list) THEN Raised(<<"ValueError">>)
    ELSE LET i == CHOOSE k \in 1..Len(list) :
                     list[k] = x /\ \A j \in 1..(k - 1) : list[j] # x
         IN Returned(SubSeq(list, 1, i - 1) \o SubSeq(list, i + 1, Len(list)))

\* for connection in disconnected: active_connections.remove(connection)
\* the list left and the connection whose removal raised, if one did
RECURSIVE remove_disconnected(_, _)
remove_disconnected(list, disconnected) ==
    IF disconnected = <<>> THEN [list |-> list, failed |-> {}]
    ELSE LET result == list_remove(list, Head(disconnected))
         IN IF result.raised THEN [list |-> list, failed |-> {Head(disconnected)}]
            ELSE remove_disconnected(result.value, Tail(disconnected))

\* the handler of connection w, one step between two awaits: the connection
\* is accepted and registered; receive_text returns a message; send_text
\* returns; send_text on a closed connection raises an exception other than
\* WebSocketDisconnect; receive_text or send_text raises WebSocketDisconnect
\* and the except clause removes the connection
websocket_endpoint(w) ==
    /\ \/ /\ handlers[w] = "new"
          /\ active_connections' = Append(active_connections, w)
          /\ handlers' = [handlers EXCEPT ![w] = "receiving"]
          /\ UNCHANGED failed_removals
       \/ /\ handlers[w] = "receiving"
          /\ peers[w] = "open"
          /\ handlers' = [handlers EXCEPT ![w] = "sending"]
          /\ UNCHANGED <<active_connections, failed_removals>>
       \/ /\ handlers[w] = "sending"
          /\ peers[w] = "open"
          /\ handlers' = [handlers EXCEPT ![w] = "receiving"]
          /\ UNCHANGED <<active_connections, failed_removals>>
       \/ /\ handlers[w] = "sending"
          /\ peers[w] = "closed"
          /\ handlers' = [handlers EXCEPT ![w] = "raised"]
          /\ UNCHANGED <<active_connections, failed_removals>>
       \/ /\ handlers[w] \in {"receiving", "sending"}
          /\ peers[w] = "closed"
          /\ LET result == list_remove(active_connections, w)
             IN /\ active_connections' = IF result.raised THEN active_connections
                                         ELSE result.value
                /\ failed_removals' = IF result.raised THEN failed_removals \cup {w}
                                      ELSE failed_removals
                /\ handlers' = [handlers EXCEPT
                                  ![w] = IF result.raised THEN "raised" ELSE "done"]
    /\ UNCHANGED <<peers, broadcast>>
    /\ UNCHANGED handled

\* the client of a registered connection goes away
client_closes(w) ==
    /\ handlers[w] \in {"receiving", "sending"}
    /\ peers[w] = "open"
    /\ peers' = [peers EXCEPT ![w] = "closed"]
    /\ UNCHANGED <<active_connections, handlers, broadcast, failed_removals>>
    /\ UNCHANGED handled

\* broadcast_message, one step between two awaits. The call: the list
\* iterator yields the first connection and the task is suspended in
\* send_text to it (with no connection registered the call ends at once).
\* The task is resumed: send_text has returned, or it raises because the
\* client is gone and the connection is put on `disconnected`; then the
\* iterator yields the connection at the next index of the list as it is
\* now and the task is suspended in send_text again, or the iterator is
\* exhausted and the removal loop runs. Handlers run while the task is
\* suspended.
broadcast_message ==
    /\ \/ /\ ~broadcast.running
          /\ broadcast' = IF active_connections = <<>> THEN NoBroadcast
                          ELSE [running |-> TRUE, index |-> 1,
                                sending |-> active_connections[1],
                                disconnected |-> <<>>]
          /\ UNCHANGED <<active_connections, failed_removals>>
       \/ /\ broadcast.running
          /\ broadcast.index < Len(active_connections)
          /\ broadcast' = [broadcast EXCEPT
                             !.index = @ + 1,
                             !.sending = active_connections[broadcast.index + 1],
                             !.disconnected = IF peers[broadcast.sending] = "closed"
                                              THEN Append(@, broadcast.sending) ELSE @]
          /\ UNCHANGED <<active_connections, failed_removals>>
       \/ /\ broadcast.running
          /\ broadcast.index >= Len(active_connections)
          /\ LET result == remove_disconnected(
                             active_connections,
                             IF peers[broadcast.sending] = "closed"
                             THEN Append(broadcast.disconnected, broadcast.sending)
                             ELSE broadcast.disconnected)
             IN /\ active_connections' = result.list
                /\ failed_removals' = failed_removals \cup result.failed
          /\ broadcast' = NoBroadcast
    /\ UNCHANGED <<handlers, peers>>
    /\ UNCHANGED handled

NextSockets ==
    \/ \E w \in Sockets : websocket_endpoint(w)
    \/ \E w \in Sockets : client_closes(w)
    \/ broadcast_message

SpecSockets == Init /\ [][NextSockets]_vars

(* ====================================================================== *)
(* Properties                                                              *)
(* ====================================================================== *)
Handled == request # None /\ request[1].kind \in {"export", "run"}

Cfg == request[1].config

Validated == Cfg.entry_points # <<>> /\ Cfg.exit_points # <<>>

\* the percentages sum to 100 within 0.01
WithinTolerance(dist) ==
    /\ SumPercentage(dist) >= FULL_PERCENT - TOLERANCE
    /\ SumPercentage(dist) <= FULL_PERCENT + TOLERANCE

\* the distribution of the request is valid, and the call found it so (the
\* counts were taken and the routing began: see C6 for the valid
\* distributions the call rejects)
ValidDistribution ==
    /\ WithinTolerance(Cfg.vehicle_distribution)
    /\ Head(response[1].detail) # "Error generating routes"

FromNode(net, i) == EdgeOf(net, i).from

ToNode(net, i) == EdgeOf(net, i).to

\* the nodes reached from the set S by one edge or more
RECURSIVE Closure(_, _)
Closure(edges, S) ==
    LET T == S \cup {e.to : e \in {x \in Range(edges) : x.from \in S}}
    IN IF T = S THEN S ELSE Closure(edges, T)

ReachedFrom(net, a) ==
    Closure(net.edges, {e.to : e \in {x \in Range(net.edges) : x.from = a}})

\* a directed path leads from the from-node of edge E to the to-node of edge X
CanReach(net, E, X) == ToNode(net, X) \in ReachedFrom(net, FromNode(net, E))

\* the least number of edges (one or more) of a path from a to b; 0 if none
RECURSIVE HopsFrom(_, _, _, _)
HopsFrom(edges, frontier, b, n) ==
    LET next == {e.to : e \in {x \in Range(edges) : x.from \in frontier}}
    IN IF b \in next THEN n + 1
       ELSE IF n > Len(edges) THEN 0
       ELSE HopsFrom(edges, next, b, n + 1)

MinHops(net, a, b) == HopsFrom(net.edges, {a}, b, 0)

\* two floats are the same number
TimeEq(a, b) == a = b

\* the step horizon / max(1, total_vehicles) of a request
Step(cfg) == Time(cfg.simulation_time, Max(1, cfg.total_vehicles))

\* k steps of a request: k * horizon / max(1, total_vehicles)
Times(k, cfg) == Time(k * cfg.simulation_time, Max(1, cfg.total_vehicles))

(* C1: for every distribution whose percentages sum to 100 within 0.01 and
   every total_vehicles >= 1, the per-type counts computed before routing
   sum to exactly total_vehicles (stated for the distributions whose counts
   the call computes: ValidDistribution). *)
C1_CountsSumToTotal ==
    (/\ request # None
     /\ request[1].kind = "counts"
     /\ ValidDistribution
     /\ Cfg.total_vehicles >= 1)
    => SumValues(vehicle_counts) = Cfg.total_vehicles

(* C2: when every selected entry edge can reach every selected exit edge the
   call returns exactly total_vehicles assignments departing at 0, step,
   2*step, ...; on the path A -> B -> C with one type at 100%, two vehicles,
   entry e1, exit e2 and horizon 100 it returns two assignments over e1 e2
   departing at 0 and 50 (stated for the requests whose distribution the
   call accepts: ValidDistribution). *)
C2_AllRoutedOnSchedule ==
    (/\ Handled
     /\ Validated
     /\ ValidDistribution
     /\ \A E \in Range(Cfg.entry_points), X \in Range(Cfg.exit_points) :
           CanReach(Cfg.network, E, X))
    => /\ Len(routes_data) = Cfg.total_vehicles
       /\ \A k \in 1..Len(routes_data) :
             TimeEq(routes_data[k].start_time, Times(k - 1, Cfg))
       /\ (/\ Cfg.network = NetPath
           /\ Cfg.vehicle_distribution = <<VD("car", 100000, "yellow")>>
           /\ Cfg.total_vehicles = 2
           /\ Cfg.entry_points = <<"e1">>
           /\ Cfg.exit_points = <<"e2">>
           /\ Cfg.simulation_time = 100)
          => /\ Len(routes_data) = 2
             /\ routes_data[1].edges = <<"e1", "e2">>
             /\ routes_data[2].edges = <<"e1", "e2">>
             /\ TimeEq(routes_data[1].start_time, Time(0, 1))
             /\ TimeEq(routes_data[2].start_time, Time(50, 1))

(* C3: the edge path of every generated assignment runs from the from-node
   of the entry edge picked for it to the to-node of the exit edge picked
   for it, and no directed path between these two nodes has fewer edges. *)
C3_PathJoinsPickedEdges ==
    Handled =>
      \A k \in 1..Len(routes_data) :
         LET path == routes_data[k].edges
             a == FromNode(Cfg.network, picks[k].entry)
             b == ToNode(Cfg.network, picks[k].exit)
         IN /\ path # <<>>
            /\ FromNode(Cfg.network, path[1]) = a
            /\ ToNode(Cfg.network, path[Len(path)]) = b
            /\ Len(path) = MinHops(Cfg.network, a, b)


\* the routes document of a request that produced one
Rendered ==
    /\ request # None
    /\ request[1].kind \in {"export", "run", "routes"}
    /\ effects.fault \notin {"mkdtemp", "render network"}

Perms(n) == {f \in [1..n -> 1..n] : \A i, j \in 1..n : f[i] = f[j] => i = j}

\* the vehicle and flow elements of the document, in the order written
RECURSIVE Movers(_)
Movers(doc) ==
    IF doc = <<>> THEN <<>>
    ELSE (IF Head(doc).tag = "route" THEN <<>> ELSE <<Head(doc)>>) \o Movers(Tail(doc))

(* C4: the routes document holds one route and one vehicle (or flow) element
   per assignment of the list it was rendered from, in ascending order of
   departure time (a sorted permutation of that list); for a list produced
   by the generator the departure times in the order written are strictly
   increasing. *)
C4_SortedByDeparture ==
    Rendered =>
      LET n == Len(routes_data)
      IN /\ Len(route_content) = 2 * n
         /\ \E f \in Perms(n) :
               /\ \A k \in 1..n :
                     <<route_content[2 * k - 1], route_content[2 * k]>>
                        = route_elements(routes_data[f[k]], n)
               /\ \A k \in 1..(n - 1) :
                     TimeLeq(start_key(routes_data[f[k]]), start_key(routes_data[f[k + 1]]))
         /\ Handled =>
               \A k \in 1..(n - 1) :
                  TimeLess(route_content[2 * k].depart, route_content[2 * k + 2].depart)

\* a request whose generator returned three assignments, all written
C4_Witness ==
    /\ Handled
    /\ Len(routes_data) >= 3
    /\ Len(route_content) = 2 * Len(routes_data)
    /\ TimeLess(route_content[2].depart, route_content[4].depart)

(* C5: when no directed path leads from the only selected entry edge to the
   only selected exit edge the generator returns no assignment and the
   request fails with the no-valid-routes error (stated for the requests
   whose distribution the call accepts: ValidDistribution). *)
C5_UnreachablePairFails ==
    (/\ Handled
     /\ Validated
     /\ ValidDistribution
     /\ Len(Cfg.entry_points) = 1
     /\ Len(Cfg.exit_points) = 1
     /\ ~CanReach(Cfg.network, Cfg.entry_points[1], Cfg.exit_points[1]))
    => /\ routes_data = <<>>
       /\ response = Reply(400, no_valid_routes)

(* C6: a distribution whose percentages differ from 100 by more than 0.01
   fails the call before anything is routed and no assignment is returned;
   a distribution within the tolerance is not rejected for its sum, and the
   counts are taken from the percentages as given (no normalisation). *)
C6_DistributionValidated ==
    (Handled /\ Validated) =>
       LET dist == Cfg.vehicle_distribution
       IN IF WithinTolerance(dist)
          THEN /\ Head(response[1].detail) # "Error generating routes"
               /\ vehicle_counts # <<>>
               /\ \A i \in 1..Len(vehicle_counts) :
                     vehicle_counts[i].key # dist[1].vehicle_type =>
                        \E j \in 1..Len(dist) :
                           /\ dist[j].vehicle_type = vehicle_counts[i].key
                           /\ vehicle_counts[i].value * FULL_PERCENT
                                 <= dist[j].percentage * Cfg.total_vehicles
                           /\ (vehicle_counts[i].value + 1) * FULL_PERCENT
                                 > dist[j].percentage * Cfg.total_vehicles
          ELSE /\ response[1].status = 400
               /\ Head(response[1].detail) = "Error generating routes"
               /\ vehicle_counts = <<>>
               /\ routes_data = <<>>
               /\ picks = <<>>
               /\ route_content = <<>>

(* C7: every assignment returned by the generator has a non-empty edge list
   in which the to-node of each edge is the from-node of the next. *)
C7_RoutesContiguous ==
    Handled =>
      \A k \in 1..Len(routes_data) :
         LET path == routes_data[k].edges
         IN /\ path # <<>>
            /\ \A j \in 1..(Len(path) - 1) :
                  ToNode(Cfg.network, path[j]) = FromNode(Cfg.network, path[j + 1])

\* a returned assignment of two edges or more
C7_Witness ==
    /\ Handled
    /\ \E k \in 1..Len(routes_data) : Len(routes_data[k].edges) >= 2

(* C8: two calls of the generator with the same random seed and the same
   other inputs return the same list of assignments, whatever calls ran
   between them. *)
C8_SeededCallsAgree ==
    (/\ memo # None
     /\ Handled
     /\ Cfg = memo[1].config)
    => routes_data = memo[1].routes

\* a later call repeats the kept seeded call and returns two assignments or more
C8_Witness ==
    /\ memo # None
    /\ Handled
    /\ ~request[1].kept
    /\ Cfg = memo[1].config
    /\ Len(routes_data) >= 2
    /\ routes_data = memo[1].routes

(* C9: a vehicle element of the routes document carries its id, type, route,
   departure time and color and no other attribute text, whatever the
   'attributes' field of the assignment holds. *)
C9_NoExtraVehicleAttributes ==
    Rendered =>
      \A k \in 1..Len(route_content) :
         route_content[k].tag = "vehicle" => route_content[k].extra = ""

(* C10: every routed vehicle is one assignment of vehicle count 1 with a
   color configured for its type, and the routes document of a generator
   result holds one vehicle element per assignment and no flow element. *)
C10_SingleVehiclesOnly ==
    Handled =>
      /\ Len(picks) = Len(routes_data)
      /\ \A k \in 1..Len(routes_data) :
            /\ routes_data[k].vehicle_count = 1
            /\ \E i \in 1..Len(Cfg.vehicle_distribution) :
                  /\ Cfg.vehicle_distribution[i].vehicle_type = routes_data[k].vehicle_type
                  /\ Cfg.vehicle_distribution[i].color = routes_data[k].color
            /\ \A j \in 1..Len(routes_data) :
                  routes_data[j].id = routes_data[k].id => j = k
      /\ Rendered =>
            /\ Len(Movers(route_content)) = Len(routes_data)
            /\ \A k \in 1..Len(Movers(route_content)) :
                  /\ Movers(route_content)[k].tag = "vehicle"
                  /\ Movers(route_content)[k].route = routes_data[k].id
                  /\ Movers(route_content)[k].color = routes_data[k].color
                  /\ Movers(route_content)[k].type = routes_data[k].vehicle_type

\* a generator result with vehicles of two types, rendered
C10_Witness ==
    /\ Handled
    /\ Len(routes_data) >= 2
    /\ routes_data[1].color # routes_data[Len(routes_data)].color
    /\ Len(Movers(route_content)) = Len(routes_data)

(* ---------------------------------------------------------------------- *)
(* Properties of the exported bundle                                       *)
(* ---------------------------------------------------------------------- *)
Exported == bundle # None

\* the metadata document of the bundle as a client reads it
Metadata == json_loads(bundle[1].metadata)

\* C11: for every edge the network parser returns, the edges document of
\* the export has exactly one record with that edge's id, from, to, lane
\* count and speed.
C11_EdgesDocumentMatchesParser ==
    Exported =>
      LET parsed == get_network_data(Cfg.network).value.edges
          doc == bundle[1].edges
      IN \A i \in 1..Len(parsed) :
            Cardinality({k \in 1..Len(doc) :
                           /\ doc[k].id = parsed[i].id
                           /\ doc[k].from = parsed[i].from
                           /\ doc[k].to = parsed[i].to
                           /\ doc[k].numLanes = parsed[i].lanes
                           /\ doc[k].speed = parsed[i].speed}) = 1

\* C12: in the metadata document every node record and every edge record
\* carries is_entry_point and is_exit_point, and an edge's flag is true
\* exactly when its id is among the selected entry (exit) edge ids.
C12_MetadataFlagsFromSelection ==
    Exported =>
      LET flags == {"is_entry_point", "is_exit_point"}
      IN /\ \A i \in 1..Len(Metadata.nodes) : flags \subseteq DOMAIN Metadata.nodes[i]
         /\ \A i \in 1..Len(Metadata.edges) :
               /\ flags \subseteq DOMAIN Metadata.edges[i]
               /\ Metadata.edges[i].is_entry_point
                     = (Metadata.edges[i].id \in Range(Cfg.entry_points))
               /\ Metadata.edges[i].is_exit_point
                     = (Metadata.edges[i].id \in Range(Cfg.exit_points))

\* a client has sent a file to the loader and the loader accepted it
Loaded == loaded # None /\ loaded[1].reply.status = 200

\* the metadata in the reply of the loader
Reloaded == loaded[1].reply.body[1].metadata

\* the coordinates of a shape, whether its points are tuples or lists
Coordinates(shape) ==
    [j \in 1..Len(shape) |->
       IF DOMAIN shape[j] = {"tuple"} THEN shape[j].tuple ELSE shape[j]]

NodeCore(n) ==
    [id |-> n.id, x |-> n.x, y |-> n.y, lat |-> n.lat, lon |-> n.lon, type |-> n.type]

EdgeCore(e) ==
    [id |-> e.id, from |-> e.from, to |-> e.to, shape |-> Coordinates(e.shape),
     length |-> e.length, speed |-> e.speed, lanes |-> e.lanes]

\* C13: a scenario serialized by create_simulation_metadata_json and loaded
\* back has the same node set, the same edge set, the same selected entry
\* and exit edges (so every edge is an entry or exit point after the round
\* trip exactly when it was before) and the same edge sequence per route.
C13_MetadataRoundTrip ==
    Loaded =>
      LET net == get_network_data(Cfg.network).value
      IN /\ {NodeCore(Reloaded.nodes[i]) : i \in 1..Len(Reloaded.nodes)}
              = {NodeCore(net.nodes[i]) : i \in 1..Len(net.nodes)}
         /\ {EdgeCore(Reloaded.edges[i]) : i \in 1..Len(Reloaded.edges)}
              = {EdgeCore(net.edges[i]) : i \in 1..Len(net.edges)}
         /\ \A i \in 1..Len(net.edges) :
               /\ (net.edges[i].id \in Range(Reloaded.selected_points.entry_points))
                    = (net.edges[i].id \in Range(Cfg.entry_points))
               /\ (net.edges[i].id \in Range(Reloaded.selected_points.exit_points))
                    = (net.edges[i].id \in Range(Cfg.exit_points))
         /\ Range(Reloaded.selected_points.entry_points) = Range(Cfg.entry_points)
         /\ Range(Reloaded.selected_points.exit_points) = Range(Cfg.exit_points)
         /\ Len(Reloaded.routes) = Len(routes_data)
         /\ \A k \in 1..Len(routes_data) :
               /\ Reloaded.routes[k].id = routes_data[k].id
               /\ Reloaded.routes[k].edges = routes_data[k].edges

\* an archive with two routes over several edges, entry and exit edges
\* selected, loaded back
C13_Witness ==
    /\ Loaded
    /\ loaded[1].upload.suffix = ".zip"
    /\ Len(Reloaded.routes) = 2
    /\ Len(Reloaded.routes[1].edges) >= 2
    /\ Len(Reloaded.edges) >= 2
    /\ Len(Reloaded.edges[1].shape) = 2
    /\ Range(Cfg.entry_points) # Range(Cfg.exit_points)

\* C14: the route records of the metadata carry the departure time, the
\* vehicle type and the color of the generated assignments, so the routes
\* document rendered from them has the same vehicles with the same
\* departure times as the one rendered from the assignments.
C14_MetadataRegeneratesRoutes ==
    Exported =>
      /\ Len(Metadata.routes) = Len(routes_data)
      /\ \A k \in 1..Len(routes_data) :
            /\ TimeEq(Metadata.routes[k].depart_time, routes_data[k].start_time)
            /\ Metadata.routes[k].vehicle_type = routes_data[k].vehicle_type
            /\ Metadata.routes[k].color = routes_data[k].color
      /\ LET again == Movers(create_route_file(Metadata.routes))
             first == Movers(route_content)
         IN /\ Len(again) = Len(first)
            /\ \A k \in 1..Len(first) :
                  /\ again[k].route = first[k].route
                  /\ TimeEq(again[k].depart, first[k].depart)

\* C15: every metadata document written by create_simulation_metadata_json
\* is accepted by the loader, has the seven required top-level fields, and
\* the node and edge counts reported equal the numbers of node and edge
\* records of the document.
C15_MetadataAccepted ==
    (loaded # None /\ loaded[1].upload.json = Some(bundle[1].metadata)) =>
      /\ loaded[1].reply.status = 200
      /\ LET body == loaded[1].reply.body[1]
         IN /\ {"simulation_info", "network_data", "nodes", "edges", "simulation_config",
                 "selected_points", "routes"} \subseteq DOMAIN body.metadata
            /\ body.node_count = Len(body.metadata.nodes)
            /\ body.edge_count = Len(body.metadata.edges)
            /\ body.network_id = Cfg.network.id

\* the metadata file of an export of a network with four nodes and five
\* edges, sent alone
C15_Witness ==
    /\ Loaded
    /\ loaded[1].upload.suffix = ".json"
    /\ loaded[1].upload.json = Some(bundle[1].metadata)
    /\ loaded[1].reply.body[1].node_count = 4
    /\ loaded[1].reply.body[1].edge_count = 5

(* ---------------------------------------------------------------------- *)
(* Properties of the network queries                                       *)
(* ---------------------------------------------------------------------- *)
Queried(kind) == request # None /\ request[1].kind = kind

\* a query of this kind was answered with a list of points
Answered(kind) == Queried(kind) /\ response[1].status = 200

\* the file read holds the path A -> B -> C
PathFile ==
    /\ Len(request[1].input.net.edges) = 2
    /\ request[1].input.net.edges[1].from = "A"
    /\ request[1].input.net.edges[1].to = "B"
    /\ request[1].input.net.edges[2].from = "B"
    /\ request[1].input.net.edges[2].to = "C"

PointIds == {response[1].body[i].id : i \in 1..Len(response[1].body)}

\* C16: an edge is reported as an entry point iff no edge of the graph ends
\* at its from-node, and as an exit point iff no edge starts at its to-node;
\* on the path A -> B -> C the edge leaving A is the only entry point and
\* the edge entering C the only exit point.
C16_BoundaryClassification ==
    /\ Answered("entry-points") =>
         LET edges == Range(request[1].input.net.edges)
         IN PointIds = {e.id : e \in {f \in edges : ~\E g \in edges : g.to = f.from}}
    /\ Answered("exit-points") =>
         LET edges == Range(request[1].input.net.edges)
         IN PointIds = {e.id : e \in {f \in edges : ~\E g \in edges : g.from = f.to}}
    /\ (Answered("entry-points") /\ PathFile)
         => PointIds = {request[1].input.net.edges[1].id}
    /\ (Answered("exit-points") /\ PathFile)
         => PointIds = {request[1].input.net.edges[2].id}

\* C17: for a graph of exactly one node the bounds returned are all zero
\* and the node keeps its coordinates.
C17_SingleNodeBounds ==
    (Queried("network-data") /\ Len(request[1].input.nodes) = 1) =>
      LET data == response[1].body
          node == NodeElements[request[1].input.nodes[1]]
      IN /\ data.bounds = [xmin |-> Rat(0, 1), ymin |-> Rat(0, 1),
                           xmax |-> Rat(0, 1), ymax |-> Rat(0, 1)]
         /\ Len(data.nodes) = 1
         /\ data.nodes[1].x = Rat(node.x, 1)
         /\ data.nodes[1].y = Rat(node.y, 1)

\* C17 as amended: for a graph of exactly one node the bounds returned are
\* the node's own coordinates (xmin = xmax = x, ymin = ymax = y) and the
\* node keeps its coordinates.
C17_SingleNodeRawBounds ==
    (Queried("network-data") /\ Len(request[1].input.nodes) = 1) =>
      LET data == response[1].body
          node == NodeElements[request[1].input.nodes[1]]
      IN /\ data.bounds = [xmin |-> Rat(node.x, 1), ymin |-> Rat(node.y, 1),
                           xmax |-> Rat(node.x, 1), ymax |-> Rat(node.y, 1)]
         /\ Len(data.nodes) = 1
         /\ data.nodes[1].x = Rat(node.x, 1)
         /\ data.nodes[1].y = Rat(node.y, 1)

\* the network data of a single node away from the origin has been returned
C17_Witness ==
    /\ Queried("network-data")
    /\ Len(request[1].input.nodes) = 1
    /\ NodeElements[request[1].input.nodes[1]].x # 0
    /\ NodeElements[request[1].input.nodes[1]].y # 0
    /\ response[1].status = 200

(* ---------------------------------------------------------------------- *)
(* Properties of the handlers' failures                                    *)
(* ---------------------------------------------------------------------- *)
\* C18: when the rendering of a document fails in an export, the request
\* fails and no archive exists for it; an export answers with an archive
\* only when the archive is complete and holds every document.
C18_ExportAtomic ==
    (request # None /\ request[1].kind = "export") =>
      /\ effects.fault \in {"render network", "render"} =>
            /\ response[1].status = 400
            /\ effects.zip = "none"
            /\ bundle = None
      /\ response[1].status = 200 =>
            /\ effects.fault = "none"
            /\ effects.zip = "complete"
            /\ effects.written = "all"
            /\ bundle # None
            /\ DOMAIN bundle[1] = {"nodes", "edges", "traffic_lights", "routes", "sumocfg",
                                   "run_script", "metadata"}
            /\ bundle[1].routes = route_content

\* an export whose rendering failed after routes were generated
C18_Witness ==
    /\ request # None
    /\ request[1].kind = "export"
    /\ Len(routes_data) >= 2
    /\ effects.fault = "render"
    /\ effects.temp_dir = "left"
    /\ response[1].status = 400

\* C19: an export or run request with an empty entry or exit selection gets
\* the one validation failure and nothing else happens for it: no counts,
\* no routes, no routes document, no temporary directory, no archive and no
\* external program.
C19_EmptySelectionRejected ==
    (Handled /\ ~Validated) =>
      /\ response = Reply(400, str_http(IF Cfg.entry_points = <<>>
                                        THEN "No entry points selected"
                                        ELSE "No exit points selected"))
      /\ vehicle_counts = <<>>
      /\ routes_data = <<>>
      /\ picks = <<>>
      /\ route_content = <<>>
      /\ effects = NoEffects
      /\ bundle = None

\* a run request with entry edges but no exit edge on a network where routes
\* exist, for a valid distribution
C19_Witness ==
    /\ Handled
    /\ request[1].kind = "run"
    /\ Cfg.entry_points # <<>>
    /\ Cfg.exit_points = <<>>
    /\ Cfg.total_vehicles >= 2
    /\ ~distribution_rejected(Cfg.vehicle_distribution)
    /\ response[1].status = 400

(* ---------------------------------------------------------------------- *)
(* Properties of the departure schedule                                    *)
(* ---------------------------------------------------------------------- *)
\* C20: the departure counter advances once per attempted vehicle: a
\* vehicle routed on attempt k (attempts numbered from 0 in type-then-index
\* order) departs at k * horizon / max(1, total_vehicles), so a failed
\* attempt leaves a gap in the schedule.
C20_DepartPerAttempt ==
    Handled =>
      \A k \in 1..Len(routes_data) :
         TimeEq(routes_data[k].start_time, Times(picks[k].attempt, Cfg))

\* C20 as amended: the departure counter advances once per routed vehicle:
\* the first routed vehicle departs at 0 and each later one a step of
\* horizon / max(1, total_vehicles) after the vehicle routed before it, so
\* a failed attempt leaves no gap in the schedule.
C20_DepartPerRoutedVehicle ==
    Handled =>
      /\ Len(picks) = Len(routes_data)
      /\ \A k \in 1..Len(routes_data) :
            /\ k = 1 => TimeEq(routes_data[k].start_time, Time(0, 1))
            /\ k > 1 => TimeEq(routes_data[k].start_time,
                                float_add(routes_data[k - 1].start_time, Step(Cfg)))
            /\ picks[k].attempt >= k - 1
            /\ k > 1 => picks[k].attempt > picks[k - 1].attempt

\* a vehicle was routed after an attempt that failed
C20_Witness ==
    /\ Handled
    /\ Len(routes_data) >= 2
    /\ picks[1].attempt = 0
    /\ picks[2].attempt = 2
    /\ Cfg.simulation_time > 0

(* ---------------------------------------------------------------------- *)
(* Properties of the parser and of the bounding-box filter                 *)
(* ---------------------------------------------------------------------- *)
\* the nodes of a file whose element has coordinates
Usable(net) == {n \in Range(net.nodes) : {"x", "y"} \subseteq DOMAIN NodeElements[n]}

Boxed(net) == net.id \in DOMAIN IdNumbers

WellFormed(net) == \A e \in Range(net.edges) : e.id \notin DOMAIN InvalidAttributes

NodeIds(data) == {data.nodes[i].id : i \in 1..Len(data.nodes)}

EdgeIds(data) == {data.edges[i].id : i \in 1..Len(data.edges)}

\* C21: an edge that references a node missing from the parsed node list
\* (absent from the file, or dropped for lack of coordinates) is dropped
\* alone: the parse succeeds and returns every node with coordinates and
\* every edge between two such nodes.
C21_UnusableEdgeDroppedAlone ==
    (Queried("network-data") /\ ~Boxed(request[1].input) /\ WellFormed(request[1].input)) =>
      LET net == request[1].input
      IN /\ response[1].status = 200
         /\ NodeIds(response[1].body) = Usable(net)
         /\ EdgeIds(response[1].body) =
              {e.id : e \in {f \in Range(net.edges) :
                                f.from \in Usable(net) /\ f.to \in Usable(net)}}

\* a node of the file inside the box of its id, in thousandths of a degree
Inside(n, m) ==
    LET node == NodeElements[n]
    IN /\ node.lat # None /\ node.lon # None
       /\ node.lat[1] * 1000 >= (IF m[1] < m[2] THEN m[1] ELSE m[2])
       /\ node.lat[1] * 1000 <= (IF m[1] < m[2] THEN m[2] ELSE m[1])
       /\ node.lon[1] * 1000 >= (IF m[3] < m[4] THEN m[3] ELSE m[4])
       /\ node.lon[1] * 1000 <= (IF m[3] < m[4] THEN m[4] ELSE m[3])

\* C22: in every graph get_network_data returns each edge's from and to
\* name returned nodes; under an id with a bounding box the nodes returned
\* are exactly the nodes inside the box and the edges returned exactly the
\* edges between two of them.
C22_EdgesNameReturnedNodes ==
    (Queried("network-data") /\ response[1].status = 200) =>
      LET net == request[1].input
          data == response[1].body
      IN /\ \A i \in 1..Len(data.edges) :
              data.edges[i].from \in NodeIds(data) /\ data.edges[i].to \in NodeIds(data)
         /\ Boxed(net) =>
              /\ NodeIds(data) = {n \in Usable(net) : Inside(n, IdNumbers[net.id])}
              /\ EdgeIds(data) =
                   {e.id : e \in {f \in Range(net.edges) :
                                     f.from \in NodeIds(data) /\ f.to \in NodeIds(data)}}
              /\ Len(data.edges) = Cardinality(EdgeIds(data))

\* the box of the id has cut nodes and edges off a graph and left an edge
C22_Witness ==
    /\ Queried("network-data")
    /\ Boxed(request[1].input)
    /\ response[1].status = 200
    /\ Len(response[1].body.nodes) < Len(request[1].input.nodes)
    /\ Len(response[1].body.edges) > 0
    /\ Len(response[1].body.edges) < Len(request[1].input.edges)

\* the extent of a set of integers
Extent(S) == (CHOOSE a \in S : \A b \in S : b <= a) - (CHOOSE a \in S : \A b \in S : a <= b)

\* a coordinate of the model in [-100, 100]; the mantissa of 100 is 1100100
\* followed by zeros, its exponent is 6
InViewport(v) ==
    IF "den" \in DOMAIN v THEN -100 * v.den <= v.num /\ v.num <= 100 * v.den
    ELSE \/ v.exp < 6
         \/ v.exp = 6 /\ v.hi < 100 * (2 ^ 20)
         \/ v.exp = 6 /\ v.hi = 100 * (2 ^ 20) /\ v.lo = 0

\* a coordinate of the model equal to 100 * k / extent
Scaled(v, k, extent) == "den" \in DOMAIN v /\ v.num * extent = 100 * k * v.den

\* C23: when the bounding box of the nodes has width and height, every
\* node's x and y lie in [-100, 100] afterwards, each is its distance from
\* the midpoint of the box times min(200 / width, 200 / height) (so the
\* midpoint maps to (0, 0) and ratios of differences are preserved), and
\* the bounds returned are -100, -100, 100, 100.
C23_RescaledIntoViewport ==
    (Queried("network-data") /\ response[1].status = 200) =>
      LET data == response[1].body
          xs == {NodeElements[n].x : n \in NodeIds(data)}
          ys == {NodeElements[n].y : n \in NodeIds(data)}
      IN (NodeIds(data) # {} /\ Extent(xs) > 0 /\ Extent(ys) > 0) =>
           LET extent == Max(Extent(xs), Extent(ys))
               xmid2 == 2 * (CHOOSE a \in xs : \A b \in xs : a <= b) + Extent(xs)
               ymid2 == 2 * (CHOOSE a \in ys : \A b \in ys : a <= b) + Extent(ys)
           IN /\ data.bounds = [xmin |-> Rat(-100, 1), ymin |-> Rat(-100, 1),
                                xmax |-> Rat(100, 1), ymax |-> Rat(100, 1)]
              /\ \A i \in 1..Len(data.nodes) :
                   LET node == data.nodes[i]
                       from == NodeElements[node.id]
                   IN /\ InViewport(node.x) /\ InViewport(node.y)
                      /\ Scaled(node.x, 2 * from.x - xmid2, extent)
                      /\ Scaled(node.y, 2 * from.y - ymid2, extent)

\* C24: an edge whose numLanes, speed or length is not a number is kept
\* with the default for that attribute (2 lanes, 13.89 m/s, 100 m) and the
\* parse succeeds.
C24_CoercionFallsBackToDefault ==
    (Queried("network-data") /\ ~WellFormed(request[1].input)) =>
      /\ response[1].status = 200
      /\ \A e \in Range(request[1].input.edges) :
           e.id \in DOMAIN InvalidAttributes =>
             \E i \in 1..Len(response[1].body.edges) :
               LET edge == response[1].body.edges[i]
                   attrs == EdgeAttributes[e.id]
                   invalid == InvalidAttributes[e.id]
               IN /\ edge.id = e.id
                  /\ edge.lanes = IF "numLanes" \in invalid THEN 2
                                  ELSE Get(attrs, "numLanes", 2)
                  /\ edge.speed = IF "speed" \in invalid THEN 1389
                                  ELSE Get(attrs, "speed", 1389)
                  /\ edge.length = IF "length" \in invalid THEN 10000
                                   ELSE Get(attrs, "length", 10000)

(* ---------------------------------------------------------------------- *)
(* Properties of the random stream and of the schedule                     *)
(* ---------------------------------------------------------------------- *)
\* C25: a call of generate_routes_with_vehicles draws from a stream of its
\* own and the engine keeps no state of the process: no call seeds or
\* advances the stream the other calls draw from, so what a call returns
\* does not depend on the calls before it.
C25_NoProcessWideStream == [][rng' = rng]_vars

\* the nodes a path of edge ids passes, from the start of its first edge
NodeSequence(net, path) ==
    <<EdgeOf(net, path[1]).from>> \o [k \in 1..Len(path) |-> EdgeOf(net, path[k]).to]

Simple(seq) == \A i, j \in 1..Len(seq) : seq[i] = seq[j] => i = j

\* C26: no generated route contains a self-loop edge or visits a node
\* twice: the node sequence of every path the search returns is simple,
\* also in a network with self-loops and cycles.
C26_RoutesAreSimplePaths ==
    Handled =>
      \A k \in 1..Len(routes_data) :
         /\ routes_data[k].edges # <<>>
         /\ \A i \in 1..Len(routes_data[k].edges) :
               LET e == EdgeOf(Cfg.network, routes_data[k].edges[i])
               IN e.from # e.to
         /\ Simple(NodeSequence(Cfg.network, routes_data[k].edges))

\* a route of two edges found on the ring, from C over A (which carries a
\* self-loop) to B, and a round trip that was asked for and not routed
C26_Witness ==
    /\ Handled
    /\ Cfg.network = NetRing
    /\ Cfg.total_vehicles = 2
    /\ Cfg.entry_points = <<"C", "B">>
    /\ Cfg.exit_points = <<"B">>
    /\ Len(routes_data) = 1
    /\ routes_data[1].edges = <<"e1", "B">>

\* C27: every assignment generate_routes_with_vehicles returns departs
\* inside the simulation window, 0 <= depart time < simulation_time, and
\* the call returns at most total_vehicles assignments.
C27_DepartsInsideWindow ==
    Queried("schedule") =>
      /\ Len(routes_data) <= Cfg.total_vehicles
      /\ \A k \in 1..Len(routes_data) :
            /\ TimeLeq(Time(0, 1), routes_data[k].start_time)
            /\ TimeLess(routes_data[k].start_time, Time(Cfg.simulation_time, 1))

\* a reply that serves an archive
Served(reply) == reply # None /\ "path" \in DOMAIN reply[1]

\* C28: two export requests never share an output archive: a later export
\* writes to another ZIP path than the earlier one, so the file at the
\* earlier path still holds the documents of the earlier request, also
\* when both are handled within the same second.
C28_ArchivesNotShared ==
    (memo # None /\ Served(memo[1].reply) /\ Handled /\ ~request[1].kept /\ Served(response)) =>
      /\ response[1].path # memo[1].reply[1].path
      /\ (IF response[1].path = memo[1].reply[1].path THEN bundle ELSE memo[1].bundle)
            = memo[1].bundle

\* C29: export_simulation releases its temporary directory on every exit
\* path: once the call has returned or raised, the directory mkdtemp
\* created for it is gone.
C29_TempDirReleased ==
    (request # None /\ request[1].kind = "export") => effects.temp_dir \in {"none", "removed"}

(* ---------------------------------------------------------------------- *)
(* Properties of the WebSocket registry                                    *)
(* ---------------------------------------------------------------------- *)
\* C30: under every interleaving of the WebSocket handlers and
\* broadcast_message a connection is removed from active_connections
\* exactly once after it closes: no removal is attempted for a connection
\* that is not in the list, and once the handler of a connection has ended
\* and no broadcast is running the connection is not in the list.
C30_RemovedExactlyOnce ==
    /\ failed_removals = {}
    /\ \A w \in Sockets :
          (handlers[w] \in {"done", "raised"} /\ ~broadcast.running)
            => w \notin Range(active_connections)

============================================================================
